---- MODULE Spec2Model ----
(***************************************************************************)
(* repo-lint: the filesystem scanner (core/scanner.ts) and the layout      *)
(* validator of the rule engine (rules/layout.ts, rules/context.ts).       *)
(*                                                                         *)
(* A relative path is the sequence of its segments ("src/a" is             *)
(* <<"src", "a">>, the scan root is << >>).                                *)
(***************************************************************************)
EXTENDS Integers, Sequences, FiniteSets, TLC

VARIABLES
    \* ---- scanner ----
    fs,            \* the directory tree on disk that is being scanned
    faults,        \* the error code readdir fails with, per directory ("none": it succeeds)
    opts,          \* ScanContext: maxDepth, maxFiles, followSymlinks, concurrency,
                   \* useGitignore, and the ignore patterns of ScanOptions
    frames,        \* the scanDirectory calls of this scan (one fiber each)
    fileCount,     \* ScanContext.fileCount (Ref<number>)
    visitedPaths,  \* ScanContext.visitedPaths (Set<string>)
    status,        \* "running" | "ok" | "failed": the exit of scan()
    err,           \* the failure of scan() when status = "failed"
    result,        \* the entries scan() returned when status = "ok"
    \* ---- rule engine ----
    config,        \* RepoLintConfig: mode, rules.ignorePaths, strict flag of the layout root
    rules,         \* RepoLintConfig.rules: forbidPaths, forbidNames, dependencies, mirror,
                   \* when, match
    input,         \* the entry list that check() was given
    children,      \* the children of the layout root that have been checked, in order
    files,         \* CheckContext.files: the entries after the ignorePaths filter
    violations,    \* CheckContext.violations (Ref)
    matched,       \* CheckContext.matched (Ref)
    cpc,           \* the position of check(): "idle", the rule check that runs next,
                   \* "layout", "done" (a CheckResult was returned) or "died" (check raised)
    cache,         \* defaultMatcherCache: the normalized patterns that have a compiled matcher
    run,           \* "first", or how check() is run the second time: "same" | "filtered"
    first,         \* the violations that the first run returned
    plan,          \* the children of the layout root in the first run
    \* ---- matcher, result cache ----
    call,          \* the arguments of the function that is applied
    ret,           \* what the function returned
    mcache,        \* a MatcherCache: its maxSize and its keys, oldest first
    lock,          \* the lock file of the result cache
    ops            \* the readCache and writeCache operations on one root

toolVars == <<call, ret, mcache, lock, ops>>
scanVars == <<fs, faults, opts, frames, fileCount, visitedPaths, status, err, result, toolVars>>
runVars == <<rules, input, run, first, plan>>
checkVars == <<config, children, files, violations, matched, cpc, cache, rules, input, run, first, plan,
               toolVars>>

vars == <<fs, faults, opts, frames, fileCount, visitedPaths, status, err, result,
          config, children, files, violations, matched, cpc, cache,
          rules, input, run, first, plan, call, ret, mcache, lock, ops>>

(***************************************************************************)
(* Bounds of the model.                                                    *)
(***************************************************************************)
MaxDepthBound == 3       \* maxDepth is drawn from 1..MaxDepthBound
MaxFilesBound == 8       \* maxFiles is 3, 4 or MaxFilesBound
MaxConcurrency == 2      \* concurrency is drawn from 1..MaxConcurrency

MaxDepthChoices == 1..MaxDepthBound
MaxFilesChoices == {3, 4, MaxFilesBound}
ConcurrencyChoices == 1..MaxConcurrency

(***************************************************************************)
(* The filesystem.  A directory is named by its real path (R is the scan   *)
(* root); a listing is the Dirent sequence readdir returns for it.         *)
(***************************************************************************)
NoTarget == "-"
RootReal == "R"

DirEnt(n, r)  == [name |-> n, kind |-> "dir",  target |-> r]
FileEnt(n)    == [name |-> n, kind |-> "file", target |-> NoTarget]
LinkEnt(n, r) == [name |-> n, kind |-> "link", target |-> r]

\* two sibling directories that each hold a symlink to the same directory T,
\* which lies outside the scan root and is three levels deep
FsShared ==
    [R |-> <<DirEnt("x", "X"), DirEnt("y", "Y")>>,
     X |-> <<LinkEnt("l", "T"), FileEnt("f")>>,
     Y |-> <<LinkEnt("m", "T")>>,
     T |-> <<DirEnt("d", "D")>>,
     D |-> <<FileEnt("g")>>]

\* a directory and a symlink to it side by side
FsAlias ==
    [R |-> <<LinkEnt("b", "A"), DirEnt("a", "A")>>,
     A |-> <<FileEnt("h")>>]

\* a symlink that points at the directory that contains it
FsCycle ==
    [R |-> <<DirEnt("a", "A")>>,
     A |-> <<LinkEnt("s", "A"), FileEnt("h")>>]

\* a plain tree five directories deep
FsDeep ==
    [R |-> <<DirEnt("p", "P"), FileEnt("r")>>,
     P |-> <<DirEnt("q", "Q"), FileEnt("o")>>,
     Q |-> <<DirEnt("u", "U")>>,
     U |-> <<DirEnt("w", "W")>>,
     W |-> <<DirEnt("v", "V")>>,
     V |-> <<FileEnt("z")>>]

\* two sibling directories with one file each
FsPair ==
    [R |-> <<DirEnt("x", "X"), DirEnt("y", "Y")>>,
     X |-> <<FileEnt("f")>>,
     Y |-> <<FileEnt("g")>>]

\* a line of a .gitignore file: a pattern (its segments, whether it starts
\* with "/", whether it ends with "/"), a comment or a negation
GitPattern(rooted, segs, dirOnly) ==
    [kind |-> "pattern", rooted |-> rooted, segs |-> segs, dirOnly |-> dirOnly]
GitComment == [kind |-> "comment", rooted |-> FALSE, segs |-> <<"#">>, dirOnly |-> FALSE]
GitNegation(segs) == [kind |-> "negation", rooted |-> FALSE, segs |-> segs, dirOnly |-> FALSE]

\* the file .gitignore with the given lines
IgnoreFileEnt(lines) ==
    [name |-> ".gitignore", kind |-> "file", target |-> NoTarget, lines |-> lines]

\* the .gitignore files a directory x may hold: f, /f, d/, d/f, *, a comment
\* and a negation
GitignoreChoices ==
    {<<GitPattern(FALSE, <<"f">>, FALSE)>>,
     <<GitPattern(TRUE, <<"f">>, FALSE)>>,
     <<GitPattern(FALSE, <<"d">>, TRUE)>>,
     <<GitPattern(FALSE, <<"d", "f">>, FALSE), GitComment>>,
     <<GitNegation(<<"f">>), GitPattern(FALSE, <<"k">>, FALSE)>>}

\* a directory x with a .gitignore, a subdirectory d below it, a sibling
\* directory y and the root, each holding a file f
FsGit(lines) ==
    [R |-> <<DirEnt("x", "X"), DirEnt("y", "Y"), FileEnt("f")>>,
     X |-> <<IgnoreFileEnt(lines), FileEnt("f"), DirEnt("d", "D")>>,
     D |-> <<FileEnt("f"), FileEnt("k")>>,
     Y |-> <<FileEnt("f")>>]

\* a .gitignore in the scan root
FsGitRoot ==
    [R |-> <<IgnoreFileEnt(<<GitPattern(FALSE, <<"f">>, FALSE)>>), DirEnt("x", "X"),
             FileEnt("f"), LinkEnt("n", "X")>>,
     X |-> <<FileEnt("f"), FileEnt("k")>>]

\* two sibling directories whose listing may fail; the name of the first one
\* is an error code
FsFault ==
    [R |-> <<DirEnt("EPERM", "E"), DirEnt("y", "Y"), DirEnt("z", "Z")>>,
     E |-> <<FileEnt("f")>>,
     Y |-> <<FileEnt("g")>>]

FileSystems ==
    {FsShared, FsAlias, FsCycle, FsDeep, FsPair, FsGitRoot, FsFault}
      \cup {FsGit(lines) : lines \in GitignoreChoices}

IgnoreChoices == {{}, {<<"x", "f">>}, {<<"p", "q">>}, {<<"y", "**">>}}

ErrorCodes == {"ENOENT", "EACCES", "EPERM", "EIO"}

NoFaults(tree) == [d \in DOMAIN tree |-> "none"]

\* the directories whose listing fails: none, or one of the two siblings of FsFault
FaultChoices(tree) ==
    {NoFaults(tree)} \cup
    (IF tree = FsFault
     THEN {[NoFaults(tree) EXCEPT ![d] = c] : d \in {"E", "Y"}, c \in ErrorCodes}
     ELSE {})

\* readdir(dir, {withFileTypes: true}) when it succeeds
readDirectory(real) ==
    IF real \in DOMAIN fs THEN fs[real] ELSE << >>

\* the error code readdir(dir) fails with; a directory that is not on disk
\* fails with ENOENT
FaultOf(real) == IF real \in DOMAIN fs THEN faults[real] ELSE "ENOENT"

Lookup(real, name) ==
    LET ents == readDirectory(real)
        idx  == {k \in 1..Len(ents) : ents[k].name = name}
    IN  IF idx = {} THEN NoTarget ELSE ents[CHOOSE k \in idx : TRUE].target

\* the directory the operating system reaches by following a path from the root
RECURSIVE RealFrom(_, _)
RealFrom(real, path) ==
    IF path = << >> THEN real ELSE RealFrom(Lookup(real, Head(path)), Tail(path))

\* line 285: the directory the scan starts in, join(options.root, scopePath)
ScanRoot == RealFrom(RootReal, opts.scope)

RealOf(path) == RealFrom(ScanRoot, path)

\* realpath(fullPath) of a symlink entry
resolveSymlink(ent) == ent.target

(***************************************************************************)
(* scanDirectory                                                           *)
(***************************************************************************)
\* picomatch(pattern, {dot: true, bash: false}) on a relative path, segment
\* by segment: ** is any number of segments (none included), * is one segment
RECURSIVE SegmentsMatch(_, _)
SegmentsMatch(path, pat) ==
    IF pat = << >> THEN path = << >>
    ELSE IF Head(pat) = "**"
         THEN \E k \in 0..Len(path) : SegmentsMatch(SubSeq(path, k + 1, Len(path)), Tail(pat))
    ELSE IF path = << >> THEN FALSE
    ELSE (Head(pat) = "*" \/ Head(pat) = Head(path)) /\ SegmentsMatch(Tail(path), Tail(pat))

\* normalizePattern: a pattern without "/" that has glob characters and does
\* not start with ** matches at any depth
normalizeIgnorePattern(pat) ==
    IF Len(pat) = 1 /\ Head(pat) = "*" THEN <<"**">> \o pat ELSE pat

\* createMatcher(patterns)(relPath)
createMatcher(patterns, relPath) ==
    \E p \in patterns : SegmentsMatch(relPath, normalizeIgnorePattern(p))

ignoreMatcher_Never(patterns, relPath) == FALSE

\* line 190: matcherFor(ctx, localPatterns)
ignoreMatcher(patterns, relPath) == createMatcher(patterns, relPath)

parseGitignore_Unscoped(lines, baseRel) ==
    UNION {IF lines[k].kind # "pattern" THEN {}
           ELSE {lines[k].segs} : k \in 1..Len(lines)}

\* lines 64-104: the patterns of a .gitignore, scoped to the directory baseRel
parseGitignore(lines, baseRel) ==
    UNION {IF lines[k].kind # "pattern" THEN {}
           ELSE LET line        == lines[k]
                    hasSlash    == line.rooted \/ Len(line.segs) > 1
                    basePattern == IF hasSlash THEN baseRel \o line.segs
                                   ELSE baseRel \o <<"**">> \o line.segs
                IN  {basePattern} \cup
                    (IF line.dirOnly THEN {basePattern \o <<"**">>} ELSE {})
           : k \in 1..Len(lines)}

\* lines 106-121: the patterns of dir/.gitignore, none when there is no such
\* file or it cannot be read
readGitignoreFile(real, baseRel) ==
    LET ents == readDirectory(real)
        idx  == {k \in 1..Len(ents) : ents[k].name = ".gitignore"}
    IN  IF idx = {} THEN {}
        ELSE parseGitignore(ents[CHOOSE k \in idx : TRUE].lines, baseRel)

\* lines 186-188: the inherited patterns and those of the local .gitignore
localPatterns(inheritedPatterns, real, rel) ==
    IF opts.useGitignore
    THEN inheritedPatterns \cup readGitignoreFile(real, rel)
    ELSE inheritedPatterns

\* String(error.cause) of a failed readdir, word by word: the error code and
\* then the path of the directory, as in "EIO: i/o error, scandir 'y'"
CauseString(code, dir) == <<code>> \o dir

includes(str, word) == \E k \in 1..Len(str) : str[k] = word

\* line 197: the read errors that scanDirectory turns into an empty listing
Tolerated(errorStr) ==
    includes(errorStr, "EACCES") \/ includes(errorStr, "EPERM") \/ includes(errorStr, "ENOENT")

FileEntry(relPath, isDir, isLink, depth) ==
    [relativePath |-> relPath, isDirectory |-> isDir, isSymlink |-> isLink, depth |-> depth]

\* a call scanDirectory(dir, ctx, depth, patterns); patterns holds the
\* inherited patterns until the directory is read and localPatterns after
Frame(dir, depth, parent, patterns) ==
    [dir |-> dir, depth |-> depth, parent |-> parent, pc |-> "readdir",
     i |-> 1, count |-> 0, results |-> << >>, subdirs |-> << >>, started |-> 0,
     patterns |-> patterns]

\* lines 194-202: the listing, empty when readdir failed
Entries(f) ==
    LET real == RealOf(frames[f].dir)
    IN  IF FaultOf(real) # "none" THEN << >> ELSE readDirectory(real)

\* the position of the first entry at or after i that the loop does not skip
RECURSIVE SkipIgnored(_, _, _, _)
SkipIgnored(patterns, dir, ents, i) ==
    IF i > Len(ents) THEN i
    ELSE IF ignoreMatcher(patterns, Append(dir, ents[i].name))
         THEN SkipIgnored(patterns, dir, ents, i + 1)
         ELSE i

\* the frame after the loop body for entry i has finished
Advance(fr, ents) ==
    LET j == SkipIgnored(fr.patterns, fr.dir, ents, fr.i + 1)
    IN  [fr EXCEPT !.i = j, !.pc = IF j > Len(ents) THEN "forEach" ELSE "loop"]

ScanErrorOf(cause) == [tag |-> "ScanError", cause |-> cause]
TimedOut == [tag |-> "Scan timed out"]

Fail(cause) ==
    /\ status' = "failed"
    /\ err' = ScanErrorOf(cause)
    /\ result' = << >>

NoErr == [tag |-> "none", cause |-> [tag |-> "none"]]

WithinDepth_OffByOne(currentDepth, maxDepth) == currentDepth <= maxDepth

\* line 252: may the directory being listed at currentDepth hold a subdirectory
WithinDepth(currentDepth, maxDepth) == currentDepth < maxDepth

\* lines 244-270: record the entry and queue a subdirectory, or fail at maxDepth
Classify(f, fr, ent) ==
    LET ents    == Entries(f)
        relPath == Append(fr.dir, ent.name)
        depth   == fr.depth + 1
        isLink  == ent.kind = "link"
    IN  IF ent.kind = "dir" \/ (isLink /\ opts.followSymlinks)
        THEN IF WithinDepth(fr.depth, opts.maxDepth)
             THEN /\ frames' = [frames EXCEPT ![f] =
                        Advance([fr EXCEPT
                            !.results = Append(@, FileEntry(relPath, TRUE, isLink, depth)),
                            !.subdirs = Append(@, [path |-> relPath, depth |-> depth,
                                                   patterns |-> fr.patterns])],
                          ents)]
                  /\ UNCHANGED <<status, err, result>>
             ELSE /\ frames' = [frames EXCEPT ![f] =
                        [fr EXCEPT !.results = Append(@, FileEntry(relPath, TRUE, isLink, depth))]]
                  /\ Fail([tag |-> "MaxDepthExceededError", path |-> relPath,
                           depth |-> depth, maxDepth |-> opts.maxDepth])
        ELSE IF ent.kind = "file"
        THEN /\ frames' = [frames EXCEPT ![f] =
                    Advance([fr EXCEPT
                        !.results = Append(@, FileEntry(relPath, FALSE, isLink, depth))], ents)]
             /\ UNCHANGED <<status, err, result>>
        ELSE /\ frames' = [frames EXCEPT ![f] = Advance(fr, ents)]
             /\ UNCHANGED <<status, err, result>>

\* lines 183-202: read the local .gitignore, skip an ignored directory,
\* otherwise list it; a read error that is not tolerated fails the scan
ReadDir(f) ==
    /\ status = "running"
    /\ frames[f].pc = "readdir"
    /\ LET fr    == frames[f]
           real  == RealOf(fr.dir)
           local == localPatterns(fr.patterns, real, fr.dir)
           ents  == Entries(f)
           j     == SkipIgnored(local, fr.dir, ents, 1)
           error == [tag |-> "FileSystemError", path |-> fr.dir, operation |-> "readdir",
                     cause |-> CauseString(FaultOf(real), fr.dir)]
       IN  IF fr.dir # << >> /\ ignoreMatcher(local, fr.dir)
           THEN /\ frames' = [frames EXCEPT ![f].patterns = local, ![f].pc = "done"]
                /\ UNCHANGED <<status, err, result>>
           ELSE IF FaultOf(real) # "none" /\ ~Tolerated(error.cause)
           THEN /\ frames' = [frames EXCEPT ![f].patterns = local]
                /\ Fail(error)
           ELSE /\ frames' = [frames EXCEPT ![f].patterns = local, ![f].i = j,
                                    ![f].pc = IF j > Len(ents) THEN "forEach" ELSE "loop"]
                /\ UNCHANGED <<status, err, result>>
    /\ UNCHANGED <<fs, faults, opts, fileCount, visitedPaths, checkVars>>

\* line 218: const count = yield* Ref.get(ctx.fileCount)
GetCount(f) ==
    /\ status = "running"
    /\ frames[f].pc = "loop"
    /\ frames' = [frames EXCEPT ![f].count = fileCount, ![f].pc = "update"]
    /\ UNCHANGED <<fs, faults, opts, fileCount, visitedPaths, status, err, result, checkVars>>

\* lines 219-222, and lines 224-270 for an entry that is not a followed symlink
UpdateCount(f) ==
    /\ status = "running"
    /\ frames[f].pc = "update"
    /\ LET fr  == frames[f]
           ent == Entries(f)[fr.i]
       IN  IF fr.count >= opts.maxFiles
           THEN /\ Fail([tag |-> "MaxFilesExceededError", count |-> fr.count,
                         maxFiles |-> opts.maxFiles])
                /\ UNCHANGED <<frames, fileCount>>
           ELSE /\ fileCount' = fileCount + 1
                /\ IF ent.kind = "link" /\ opts.followSymlinks
                   THEN /\ frames' = [frames EXCEPT ![f].pc = "resolve"]
                        /\ UNCHANGED <<status, err, result>>
                   ELSE Classify(f, fr, ent)
    /\ UNCHANGED <<fs, faults, opts, visitedPaths, checkVars>>

VisitedHas_Never(visited, target) == FALSE

\* line 237: ctx.visitedPaths.has(resolvedTarget)
VisitedHas(visited, target) == target \in visited

VisitedAdd_Forgets(visited, target) == visited

\* line 240: ctx.visitedPaths.add(resolvedTarget)
VisitedAdd(visited, target) == visited \cup {target}

\* lines 227-242 for a followed symlink, then lines 244-259
Resolve(f) ==
    /\ status = "running"
    /\ frames[f].pc = "resolve"
    /\ LET fr     == frames[f]
           ent    == Entries(f)[fr.i]
           target == resolveSymlink(ent)
       IN  IF target # NoTarget /\ VisitedHas(visitedPaths, target)
           THEN /\ Fail([tag |-> "SymlinkLoopError", path |-> Append(fr.dir, ent.name),
                         target |-> target])
                /\ UNCHANGED <<frames, visitedPaths>>
           ELSE /\ visitedPaths' = IF target # NoTarget
                                   THEN VisitedAdd(visitedPaths, target) ELSE visitedPaths
                /\ Classify(f, fr, ent)
    /\ UNCHANGED <<fs, faults, opts, fileCount, checkVars>>

Children(f) == {g \in DOMAIN frames : frames[g].parent = f}
Running(f)  == {g \in Children(f) : frames[g].pc # "done"}

\* lines 273-277: Effect.forEach starts the next subdirectory when a worker is free
StartChild(f) ==
    /\ status = "running"
    /\ frames[f].pc = "forEach"
    /\ frames[f].started < Len(frames[f].subdirs)
    /\ Cardinality(Running(f)) < opts.concurrency
    /\ LET sd == frames[f].subdirs[frames[f].started + 1]
       IN  frames' = Append([frames EXCEPT ![f].started = @ + 1],
                            Frame(sd.path, sd.depth, f, sd.patterns))
    /\ UNCHANGED <<fs, faults, opts, fileCount, visitedPaths, status, err, result, checkVars>>

RECURSIVE FlatResults(_, _)
FlatResults(f, g) ==
    IF g > Len(frames) THEN << >>
    ELSE (IF frames[g].parent = f THEN frames[g].results ELSE << >>)
         \o FlatResults(f, g + 1)

\* line 279, and for the root call lines 302-310: the scan succeeds
Return(f) ==
    /\ status = "running"
    /\ frames[f].pc = "forEach"
    /\ frames[f].started = Len(frames[f].subdirs)
    /\ Running(f) = {}
    /\ LET all == frames[f].results \o FlatResults(f, 1)
       IN  /\ frames' = [frames EXCEPT ![f].results = all, ![f].pc = "done"]
           /\ IF f = 1
              THEN status' = "ok" /\ result' = all
              ELSE UNCHANGED <<status, result>>
    /\ UNCHANGED <<fs, faults, opts, fileCount, visitedPaths, err, checkVars>>

OnTimeout_Partial(partial) == [status |-> "ok", err |-> NoErr, result |-> partial]

\* lines 303-306: timeoutFail interrupts the walk and fails with a ScanError
OnTimeout(partial) == [status |-> "failed", err |-> ScanErrorOf(TimedOut), result |-> << >>]

\* lines 303-306: the wall-clock timeout fires while the walk is still running
Timeout ==
    /\ status = "running"
    /\ LET out == OnTimeout(frames[1].results)
       IN  /\ status' = out.status
           /\ err' = out.err
           /\ result' = out.result
    /\ UNCHANGED <<fs, faults, opts, frames, fileCount, visitedPaths, checkVars>>

\* lines 282-298: scan() builds the ScanContext and calls scanDirectory on the root
ScanInit ==
    /\ fs \in FileSystems
    /\ faults \in FaultChoices(fs)
    /\ opts \in [maxDepth : MaxDepthChoices, maxFiles : MaxFilesChoices,
                 followSymlinks : BOOLEAN, concurrency : ConcurrencyChoices,
                 useGitignore : BOOLEAN, ignore : IgnoreChoices, scope : {<< >>}]
    /\ frames = <<Frame(<< >>, Len(opts.scope), 0, opts.ignore)>>
    /\ fileCount = 0
    /\ visitedPaths = {ScanRoot}
    /\ status = "running"
    /\ err = NoErr
    /\ result = << >>
    \* the rule engine is not running during a scan
    /\ config = [mode |-> "warn", ignorePaths |-> << >>, strict |-> FALSE]
    /\ rules = [forbidPaths |-> << >>, forbidNames |-> << >>, dependencies |-> << >>,
                mirror |-> << >>, when |-> << >>, match |-> << >>]
    /\ input = << >>
    /\ children = << >>
    /\ files = << >>
    /\ violations = << >>
    /\ matched = {}
    /\ cpc = "idle"
    /\ call = [tool |-> "none"]
    /\ ret = [tool |-> "none"]
    /\ mcache = [maxSize |-> 0, keys |-> << >>]
    /\ lock = [exists |-> FALSE, owner |-> 0, old |-> FALSE]
    /\ ops = << >>
    /\ cache = {}
    /\ run = "first"
    /\ first = << >>
    /\ plan = << >>

\* the scopes of a scan: none, x and p/q
ScopeChoices == {<< >>, <<"x">>, <<"p", "q">>}

\* lines 282-302: a scan that may be restricted to a scope; scanDirectory
\* starts in the scope directory with scopePath.split("/").length as depth
ScopedInit ==
    /\ fs \in FileSystems
    /\ faults = NoFaults(fs)
    /\ opts \in [maxDepth : {MaxDepthBound, MaxDepthBound + 2}, maxFiles : {MaxFilesBound},
                 followSymlinks : BOOLEAN, concurrency : {1},
                 useGitignore : BOOLEAN, ignore : {{}}, scope : ScopeChoices]
    /\ frames = <<Frame(<< >>, Len(opts.scope), 0, opts.ignore)>>
    /\ fileCount = 0
    /\ visitedPaths = {ScanRoot}
    /\ status = "running"
    /\ err = NoErr
    /\ result = << >>
    \* the rule engine is not running during a scan
    /\ config = [mode |-> "warn", ignorePaths |-> << >>, strict |-> FALSE]
    /\ rules = [forbidPaths |-> << >>, forbidNames |-> << >>, dependencies |-> << >>,
                mirror |-> << >>, when |-> << >>, match |-> << >>]
    /\ input = << >>
    /\ children = << >>
    /\ files = << >>
    /\ violations = << >>
    /\ matched = {}
    /\ cpc = "idle"
    /\ call = [tool |-> "none"]
    /\ ret = [tool |-> "none"]
    /\ mcache = [maxSize |-> 0, keys |-> << >>]
    /\ lock = [exists |-> FALSE, owner |-> 0, old |-> FALSE]
    /\ ops = << >>
    /\ cache = {}
    /\ run = "first"
    /\ first = << >>
    /\ plan = << >>

ScanNext ==
    \/ \E f \in DOMAIN frames : ReadDir(f)
    \/ \E f \in DOMAIN frames : GetCount(f)
    \/ \E f \in DOMAIN frames : UpdateCount(f)
    \/ \E f \in DOMAIN frames : Resolve(f)
    \/ \E f \in DOMAIN frames : StartChild(f)
    \/ \E f \in DOMAIN frames : Return(f)
    \/ Timeout

ScanSpec == ScanInit /\ [][ScanNext]_vars

ScopedScanSpec == ScopedInit /\ [][ScanNext]_vars
(***************************************************************************)
(* Names and glob patterns.  A name or a pattern is the sequence of its    *)
(* characters.                                                             *)
(***************************************************************************)
nSrc == <<"s", "r", "c">>          \* src
nLib == <<"l", "b">>               \* lb
nIdx == <<"i", ".", "t", "s">>     \* i.ts
nFoo == <<"F", ".", "t", "s">>     \* F.ts
nPkg == <<"p", ".", "j", "s">>     \* p.js
nUnx == <<"u", ".", "t", "s">>     \* u.ts
nVts == <<"v", ".", "t", "s">>     \* v.ts

pTs   == <<"*", ".", "t", "s">>                           \* *.ts
pTsJs == <<"*", ".", "{", "t", "s", ",", "j", "s", "}">>  \* *.{ts,js}

Lower == {"a", "b", "c", "i", "j", "l", "p", "r", "s", "t", "u", "v", "w"}
Upper == {"F"}
Digit == {"0", "1"}

\* picomatch(pattern, {dot: true, bash: false}) on one path segment:
\* * is any run of characters, ? is one character, [...] is one of the
\* characters between the brackets
RECURSIVE GlobMatch(_, _)
GlobMatch(str, pat) ==
    IF pat = << >> THEN str = << >>
    ELSE IF Head(pat) = "*"
         THEN \E k \in 0..Len(str) : GlobMatch(SubSeq(str, k + 1, Len(str)), Tail(pat))
    ELSE IF Head(pat) = "[" /\ \E j \in 3..Len(pat) : pat[j] = "]"
         THEN LET j == CHOOSE x \in 3..Len(pat) :
                         pat[x] = "]" /\ \A y \in 3..(x - 1) : pat[y] # "]"
              IN  /\ str # << >>
                  /\ \E k \in 2..(j - 1) : pat[k] = Head(str)
                  /\ GlobMatch(Tail(str), SubSeq(pat, j + 1, Len(pat)))
    ELSE IF str = << >> THEN FALSE
    ELSE (Head(pat) = "?" \/ Head(pat) = Head(str)) /\ GlobMatch(Tail(str), Tail(pat))

RECURSIVE SplitComma(_, _)
SplitComma(str, acc) ==
    IF str = << >> THEN {acc}
    ELSE IF Head(str) = "," THEN {acc} \cup SplitComma(Tail(str), << >>)
    ELSE SplitComma(Tail(str), Append(acc, Head(str)))

\* picomatch reads {x,y} as x or y: the segment patterns that a segment
\* pattern with one brace group stands for
Alternatives(pat) ==
    LET opens == {i \in 1..Len(pat) :
                    /\ pat[i] = "{"
                    /\ \E j \in (i + 1)..Len(pat) :
                         /\ pat[j] = "}"
                         /\ \A k \in (i + 1)..(j - 1) : pat[k] # "}"
                         /\ \E k \in (i + 1)..(j - 1) : pat[k] = ","}
    IN  IF opens = {} THEN {pat}
        ELSE LET i == CHOOSE x \in opens : \A y \in opens : x <= y
                 j == CHOOSE x \in (i + 1)..Len(pat) :
                        pat[x] = "}" /\ \A k \in (i + 1)..(x - 1) : pat[k] # "}"
             IN  {SubSeq(pat, 1, i - 1) \o opt \o SubSeq(pat, j + 1, Len(pat)) :
                    opt \in SplitComma(SubSeq(pat, i + 1, j - 1), << >>)}

SegmentMatch(str, pat) ==
    IF \A k \in 1..Len(pat) : pat[k] # "{"
    THEN GlobMatch(str, pat)
    ELSE \E alt \in Alternatives(pat) : GlobMatch(str, alt)

\* /[*?[\]]/.test(pattern)
HasGlobChars(pat) == \E k \in 1..Len(pat) : pat[k] \in {"*", "?", "[", "]"}

GlobStar == <<"*", "*">>

\* a pattern is the sequence of its segments; ** stands for any number of
\* segments, none included
RECURSIVE PathMatch_GlobStarTakesOne(_, _)
PathMatch_GlobStarTakesOne(path, pat) ==
    IF pat = << >> THEN path = << >>
    ELSE IF Head(pat) = GlobStar
         THEN \E k \in 1..Len(path) :
                 PathMatch_GlobStarTakesOne(SubSeq(path, k + 1, Len(path)), Tail(pat))
    ELSE IF path = << >> THEN FALSE
    ELSE SegmentMatch(Head(path), Head(pat))
         /\ PathMatch_GlobStarTakesOne(Tail(path), Tail(pat))

RECURSIVE PathMatch(_, _)
PathMatch(path, pat) ==
    IF pat = << >> THEN path = << >>
    ELSE IF Head(pat) = GlobStar
         THEN \E k \in 0..Len(path) : PathMatch(SubSeq(path, k + 1, Len(path)), Tail(pat))
    ELSE IF path = << >> THEN FALSE
    ELSE SegmentMatch(Head(path), Head(pat)) /\ PathMatch(Tail(path), Tail(pat))

startsWith(str, prefix) ==
    Len(str) >= Len(prefix) /\ SubSeq(str, 1, Len(prefix)) = prefix

\* picomatch on a whole relative path: a leading ! negates the pattern
picomatch(path, pat) ==
    IF startsWith(Head(pat), <<"!">>)
    THEN ~PathMatch(path, <<Tail(Head(pat))>> \o Tail(pat))
    ELSE PathMatch(path, pat)

\* lines 160-183: a pattern without "/" that has one of * ? [ ] and does not
\* start with ** matches at any depth; !p becomes !**/p
normalizePattern(pat) ==
    IF Len(pat) = 1
    THEN LET isNegation == startsWith(Head(pat), <<"!">>)
             patternWithoutNegation == IF isNegation THEN Tail(Head(pat)) ELSE Head(pat)
         IN  IF ~startsWith(patternWithoutNegation, GlobStar)
                /\ HasGlobChars(patternWithoutNegation)
             THEN IF isNegation
                  THEN <<<<"!">> \o GlobStar, patternWithoutNegation>>
                  ELSE <<GlobStar, patternWithoutNegation>>
             ELSE pat
    ELSE pat

\* MatcherCache.set, line 248: the matcher kept under a key is compiled from
\* the normalized pattern that is the key
Stored_Basename(key) == <<key[Len(key)]>>

Stored(key) == key

\* lines 225-250: the empty pattern has its own matcher; a hit returns the
\* matcher in the cache, a miss compiles the normalized pattern (and keeps it)
getCachedMatcher(pat, path) ==
    IF pat = << >> THEN path = << >>
    ELSE LET normalizedPattern == normalizePattern(pat)
         IN  IF normalizedPattern \in cache
             THEN picomatch(path, Stored(normalizedPattern))
             ELSE picomatch(path, normalizedPattern)

\* the keys that the cache holds once the matchers of these patterns were asked for
CacheKeys(patterns) ==
    {normalizePattern(patterns[k]) : k \in {x \in 1..Len(patterns) : patterns[x] # << >>}}

matchesAny(path, patterns) ==
    Len(patterns) > 0 /\ \E k \in 1..Len(patterns) : getCachedMatcher(patterns[k], path)

validateBracePattern_AnyBrace(pat) == \A k \in 1..Len(pat) : pat[k] # "{"

\* lines 189-197, pattern.match(/\{([^}]*)\}/): FALSE when it throws, which is
\* when the first brace group has an opening brace inside
validateBracePattern(pat) ==
    LET opens == {i \in 1..Len(pat) :
                    pat[i] = "{" /\ \E j \in (i + 1)..Len(pat) : pat[j] = "}"}
    IN  \/ opens = {}
        \/ LET i == CHOOSE x \in opens : \A y \in opens : x <= y
                j == CHOOSE x \in (i + 1)..Len(pat) :
                       pat[x] = "}" /\ \A k \in (i + 1)..(x - 1) : pat[k] # "}"
            IN  \A k \in (i + 1)..(j - 1) : pat[k] # "{"

\* pattern.match(/\{([^}]+)\}/): the first brace group, one alternative each
expandBraces(pat) ==
    LET opens == {i \in 1..Len(pat) :
                    /\ pat[i] = "{"
                    /\ \E j \in (i + 2)..Len(pat) :
                         pat[j] = "}" /\ \A k \in (i + 1)..(j - 1) : pat[k] # "}"}
    IN  IF opens = {} THEN {pat}
        ELSE LET i == CHOOSE x \in opens : \A y \in opens : x <= y
                 j == CHOOSE x \in (i + 2)..Len(pat) :
                        pat[x] = "}" /\ \A k \in (i + 1)..(x - 1) : pat[k] # "}"
             IN  {SubSeq(pat, 1, i - 1) \o opt \o SubSeq(pat, j + 1, Len(pat)) :
                    opt \in SplitComma(SubSeq(pat, i + 1, j - 1), << >>)}

matchesWithBraces(name, pat) ==
    \E p \in expandBraces(pat) : getCachedMatcher(<<p>>, <<name>>)

getBasename(path) == IF path = << >> THEN << >> ELSE path[Len(path)]

(***************************************************************************)
(* core/case.ts                                                            *)
(***************************************************************************)
AlnumOf(style) ==
    IF style \in {"kebab", "snake"} THEN Lower \cup Digit ELSE Lower \cup Upper \cup Digit

FirstOf(style) == IF style = "pascal" THEN Upper ELSE Lower

SepOf(style) == IF style = "kebab" THEN {"-"} ELSE IF style = "snake" THEN {"_"} ELSE {}

\* ^[first][alnum]*(sep[alnum]+)*(\.[alnum]+)*$ as an automaton; q is
\* "word" (inside the base name), "sep" or "dot" (one more character is
\* needed) or "ext" (inside an extension)
RECURSIVE CaseRun(_, _, _)
CaseRun(str, style, q) ==
    IF str = << >> THEN q \in {"word", "ext"}
    ELSE LET c == Head(str) IN
         IF c \in AlnumOf(style)
         THEN CaseRun(Tail(str), style,
                      IF q \in {"dot", "ext"} THEN "ext" ELSE "word")
         ELSE IF c \in SepOf(style) THEN q = "word" /\ CaseRun(Tail(str), style, "sep")
         ELSE IF c = "." THEN q \in {"word", "ext"} /\ CaseRun(Tail(str), style, "dot")
         ELSE FALSE

isHiddenFile(name) == name # << >> /\ Head(name) = "."

validateCase(name, style) ==
    IF isHiddenFile(name) THEN TRUE
    ELSE IF style \in {"kebab", "snake", "camel", "pascal"}
         THEN name # << >> /\ Head(name) \in FirstOf(style)
              /\ CaseRun(Tail(name), style, "word")
         ELSE TRUE

(***************************************************************************)
(* rules/context.ts                                                        *)
(***************************************************************************)
getSeverity(mode) == IF mode = "strict" THEN "error" ELSE "warning"

Violation(path, rule, message) ==
    [path |-> path, rule |-> rule, message |-> message, count |-> -1, detail |-> << >>,
     severity |-> getSeverity(config.mode)]

\* the check state that the layout walk threads through: the two Refs
addViolation_AlsoMarks(st, viol) ==
    [st EXCEPT !.v = Append(@, viol), !.m = @ \cup {viol.path}]

addViolation(st, viol) == [st EXCEPT !.v = Append(@, viol)]
markMatched(st, path) == [st EXCEPT !.m = @ \cup {path}]
isMatched(st, path) == path \in st.m

fileSet == {files[k].relativePath : k \in {x \in 1..Len(files) : ~files[x].isDirectory}}
dirSet  == {files[k].relativePath : k \in {x \in 1..Len(files) : files[x].isDirectory}}

(***************************************************************************)
(* Layout nodes (types: LayoutNode).  An absent number is Undef, an absent *)
(* pattern is the empty pattern, an absent child is the empty sequence.    *)
(***************************************************************************)
Undef == -1
NoCase == "none"

BaseNode ==
    [type |-> "file", pattern |-> << >>, case |-> NoCase, optional |-> FALSE,
     required |-> FALSE, strict |-> FALSE, maxDepth |-> Undef, max |-> Undef,
     min |-> Undef, children |-> << >>, child |-> << >>, variants |-> << >>]

Child(key, node) == [key |-> key, node |-> node]

\* name.startsWith("$")
IsMetaKey(key) == key # << >> /\ Head(key) = "$"

\* relativePath.startsWith(prefix) with prefix = path + "/", or "" at the root
IsUnder(relPath, path) ==
    Len(relPath) > Len(path) /\ SubSeq(relPath, 1, Len(path)) = path

\* rest.split("/")[0]
FirstPart(relPath, path) == relPath[Len(path) + 1]

\* died: an Error was thrown inside the Effect, which ends check with a defect
State(v, m) == [v |-> v, m |-> m, died |-> FALSE]
raise(st) == [st EXCEPT !.died = TRUE]
Ret(ok, st) == [ok |-> ok, v |-> st.v, m |-> st.m, died |-> st.died]
StateOf(r) == [v |-> r.v, m |-> r.m, died |-> r.died]

(***************************************************************************)
(* rules/layout.ts                                                         *)
(***************************************************************************)
RECURSIVE checkLayoutNode(_, _, _)
RECURSIVE dirChildren(_, _, _, _)
RECURSIVE dirStrict(_, _, _, _)
RECURSIVE paramLoop(_, _, _, _, _)
RECURSIVE manyLoop(_, _, _, _, _, _)
RECURSIVE checkRecursiveNode(_, _, _, _)
RECURSIVE recursiveLoop(_, _, _, _, _, _, _)
RECURSIVE eitherLoop(_, _, _, _)

checkFileNode(st, node, path) ==
    IF path \in fileSet
    THEN LET s1 == markMatched(st, path)
             s2 == IF node.pattern # << >> /\ ~validateBracePattern(node.pattern)
                   THEN raise(s1)
                   ELSE IF node.pattern # << >>
                      /\ ~matchesWithBraces(getBasename(path), node.pattern)
                   THEN addViolation(s1,
                          Violation(path, "layout", "file does not match pattern"))
                   ELSE s1
             s3 == IF node.case # NoCase /\ ~validateCase(getBasename(path), node.case)
                   THEN addViolation(s2, Violation(path, "naming", "expected case"))
                   ELSE s2
         IN  Ret(TRUE, s3)
    ELSE Ret(FALSE, IF node.required
                    THEN addViolation(st,
                           Violation(path, "layout", "required file is missing"))
                    ELSE st)

\* lines 105-112: every child in turn; a $-key is checked at the directory itself
dirChildren(st, kids, path, k) ==
    IF k > Len(kids) THEN st
    ELSE LET childPath == IF IsMetaKey(kids[k].key) THEN path
                          ELSE Append(path, kids[k].key)
         IN  dirChildren(StateOf(checkLayoutNode(st, kids[k].node, childPath)),
                         kids, path, k + 1)

AllowedNames(kids) ==
    {kids[k].key : k \in {x \in 1..Len(kids) : ~IsMetaKey(kids[x].key)}}

RECURSIVE dirStrict_NoMark(_, _, _, _)
dirStrict_NoMark(st, allowed, path, k) ==
    IF k > Len(files) THEN st
    ELSE LET relPath == files[k].relativePath IN
         IF /\ IsUnder(relPath, path)
            /\ FirstPart(relPath, path) \notin allowed
            /\ ~isMatched(st, relPath)
         THEN dirStrict_NoMark(addViolation(st, Violation(relPath, "layout", "is not allowed")),
                               allowed, path, k + 1)
         ELSE dirStrict_NoMark(st, allowed, path, k + 1)

\* lines 118-133: the strict sweep of one directory
dirStrict(st, allowed, path, k) ==
    IF k > Len(files) THEN st
    ELSE LET relPath == files[k].relativePath IN
         IF /\ IsUnder(relPath, path)
            /\ FirstPart(relPath, path) \notin allowed
            /\ ~isMatched(st, relPath)
         THEN dirStrict(markMatched(addViolation(st,
                            Violation(relPath, "layout", "is not allowed")), relPath),
                        allowed, path, k + 1)
         ELSE dirStrict(st, allowed, path, k + 1)

checkDirNode(st, node, path) ==
    IF ~(path = << >> \/ path \in dirSet)
    THEN Ret(FALSE, IF node.required
                    THEN addViolation(st,
                           Violation(path, "layout", "required directory is missing"))
                    ELSE st)
    ELSE LET s1 == IF path # << >> THEN markMatched(st, path) ELSE st
             s2 == dirChildren(s1, node.children, path, 1)
             s3 == IF node.strict
                   THEN dirStrict(s2, AllowedNames(node.children), path, 1)
                   ELSE s2
         IN  Ret(TRUE, s3)

\* lines 148-178
paramLoop(st, node, parentPath, k, found) ==
    IF k > Len(files) THEN Ret(found, st)
    ELSE LET relPath == files[k].relativePath IN
         IF ~IsUnder(relPath, parentPath)
         THEN paramLoop(st, node, parentPath, k + 1, found)
         ELSE LET name     == FirstPart(relPath, parentPath)
                  fullPath == Append(parentPath, name)
              IN  IF isMatched(st, fullPath)
                  THEN paramLoop(st, node, parentPath, k + 1, found)
                  ELSE LET s1 == IF node.case # NoCase /\ ~validateCase(name, node.case)
                                 THEN addViolation(st,
                                        Violation(fullPath, "naming", "expected case"))
                                 ELSE st
                       IN  IF node.pattern # << >> /\ ~validateBracePattern(node.pattern)
                           THEN Ret(found, raise(s1))
                           ELSE IF node.pattern # << >>
                                   /\ ~matchesWithBraces(name, node.pattern)
                           THEN paramLoop(s1, node, parentPath, k + 1, found)
                           ELSE LET s2 == IF node.child # << >>
                                          THEN StateOf(checkLayoutNode(s1, node.child[1], fullPath))
                                          ELSE s1
                                IN  paramLoop(markMatched(s2, fullPath), node,
                                              parentPath, k + 1, TRUE)

checkParamNode(st, node, parentPath) == paramLoop(st, node, parentPath, 1, FALSE)

\* lines 193-226; the result is the state and the count
manyLoop(st, node, parentPath, k, seen, count) ==
    IF k > Len(files) THEN [st |-> st, count |-> count]
    ELSE LET relPath == files[k].relativePath IN
         IF ~IsUnder(relPath, parentPath)
         THEN manyLoop(st, node, parentPath, k + 1, seen, count)
         ELSE LET name     == FirstPart(relPath, parentPath)
                  fullPath == Append(parentPath, name)
                  seen1    == seen \cup {name}
              IN  IF name \in seen
                  THEN manyLoop(st, node, parentPath, k + 1, seen, count)
                  ELSE IF isMatched(st, fullPath)
                  THEN manyLoop(st, node, parentPath, k + 1, seen1, count)
                  ELSE IF node.pattern # << >> /\ ~validateBracePattern(node.pattern)
                  THEN [st |-> raise(st), count |-> count]
                  ELSE IF node.pattern # << >> /\ ~matchesWithBraces(name, node.pattern)
                  THEN manyLoop(st, node, parentPath, k + 1, seen1, count)
                  ELSE LET s1 == IF node.case # NoCase /\ ~validateCase(name, node.case)
                                 THEN addViolation(st,
                                        Violation(fullPath, "naming", "expected case"))
                                 ELSE st
                           s2 == IF node.child # << >>
                                 THEN StateOf(checkLayoutNode(s1, node.child[1], fullPath))
                                 ELSE markMatched(s1, fullPath)
                       IN  manyLoop(s2, node, parentPath, k + 1, seen1, count + 1)

\* line 228
ExceedsMax(count, max) == max # Undef /\ count > max

BelowMin_OrEqual(count, min) == min # Undef /\ count <= min

\* line 236
BelowMin(count, min) == min # Undef /\ count < min

checkManyNode(st, node, parentPath) ==
    LET loop  == manyLoop(st, node, parentPath, 1, {}, 0)
        count == loop.count
        s1 == IF ExceedsMax(count, node.max)
              THEN addViolation(loop.st,
                     [Violation(parentPath, "layout", "exceeded maximum count")
                        EXCEPT !.count = count])
              ELSE loop.st
        s2 == IF BelowMin(count, node.min)
              THEN addViolation(s1,
                     [Violation(parentPath, "layout", "below minimum count")
                        EXCEPT !.count = count])
              ELSE s1
    IN  Ret(count > 0, s2)

\* lines 265-299
recursiveLoop(st, node, parentPath, depth, k, seen, found) ==
    IF k > Len(files) THEN Ret(found, st)
    ELSE LET relPath == files[k].relativePath IN
         IF ~IsUnder(relPath, parentPath)
         THEN recursiveLoop(st, node, parentPath, depth, k + 1, seen, found)
         ELSE LET name     == FirstPart(relPath, parentPath)
                  fullPath == Append(parentPath, name)
                  seen1    == seen \cup {name}
              IN  IF name \in seen
                  THEN recursiveLoop(st, node, parentPath, depth, k + 1, seen, found)
                  ELSE IF isMatched(st, fullPath)
                  THEN recursiveLoop(st, node, parentPath, depth, k + 1, seen1, found)
                  ELSE LET s1 == IF node.case # NoCase /\ ~validateCase(name, node.case)
                                 THEN addViolation(st,
                                        Violation(fullPath, "naming", "expected case"))
                                 ELSE st
                           s2 == IF node.child # << >>
                                 THEN StateOf(checkLayoutNode(s1, node.child[1], fullPath))
                                 ELSE s1
                           s3 == markMatched(s2, fullPath)
                           s4 == IF fullPath \in dirSet
                                 THEN StateOf(checkRecursiveNode(s3, node, fullPath, depth + 1))
                                 ELSE s3
                       IN  recursiveLoop(s4, node, parentPath, depth, k + 1, seen1, TRUE)

checkRecursiveNode_OneTooDeep(st, node, parentPath, depth) ==
    IF node.maxDepth # Undef /\ depth > node.maxDepth + 1 THEN Ret(FALSE, st)
    ELSE LET s1 == IF parentPath # << >> /\ parentPath \in dirSet
                   THEN markMatched(st, parentPath) ELSE st
         IN  recursiveLoop(s1, node, parentPath, depth, 1, {}, FALSE)

\* lines 254-260
checkRecursiveNode(st, node, parentPath, depth) ==
    IF node.maxDepth # Undef /\ depth > node.maxDepth THEN Ret(FALSE, st)
    ELSE LET s1 == IF parentPath # << >> /\ parentPath \in dirSet
                   THEN markMatched(st, parentPath) ELSE st
         IN  recursiveLoop(s1, node, parentPath, depth, 1, {}, FALSE)

Revert_KeepsViolations(before, after) == [before EXCEPT !.v = after.v]

Revert_KeepsMatched(before, after) == [before EXCEPT !.m = after.m]

\* lines 319-320: a failed variant is undone
Revert(before, after) == before

\* lines 312-321
eitherLoop(st, node, path, k) ==
    IF k > Len(node.variants) THEN Ret(FALSE, st)
    ELSE LET r == checkLayoutNode(st, node.variants[k], path)
         IN  IF r.died THEN Ret(FALSE, StateOf(r))
             ELSE IF r.ok THEN Ret(TRUE, StateOf(r))
             ELSE eitherLoop(Revert(st, StateOf(r)), node, path, k + 1)

checkEitherNode(st, node, path) ==
    LET r == eitherLoop(st, node, path, 1)
    IN  IF r.ok THEN r
        ELSE IF ~node.optional
             THEN Ret(FALSE, addViolation(StateOf(r),
                        Violation(path, "layout", "none of the expected variants matched")))
             ELSE Ret(FALSE, StateOf(r))

checkLayoutNode(st, node, currentPath) ==
    CASE node.type = "file"      -> checkFileNode(st, node, currentPath)
      [] node.type = "dir"       -> checkDirNode(st, node, currentPath)
      [] node.type = "param"     -> checkParamNode(st, node, currentPath)
      [] node.type = "many"      -> checkManyNode(st, node, currentPath)
      [] node.type = "recursive" -> checkRecursiveNode(st, node, currentPath, 0)
      [] node.type = "either"    -> checkEitherNode(st, node, currentPath)
      [] OTHER                   -> checkFileNode(st, node, currentPath)

IsUnexpected_IgnoresMatched(relPath, matchedSet) ==
    ~matchesAny(relPath, config.ignorePaths)

\* line 346
IsUnexpected(relPath, matchedSet) ==
    relPath \notin matchedSet /\ ~matchesAny(relPath, config.ignorePaths)

\* checkLayout lines 341-353: the sweep of strict mode
RECURSIVE unexpectedSweep(_, _, _)
unexpectedSweep(vs, matchedSet, k) ==
    IF k > Len(files) THEN vs
    ELSE LET relPath == files[k].relativePath IN
         IF IsUnexpected(relPath, matchedSet)
         THEN unexpectedSweep(
                Append(vs, Violation(relPath, "layout", "unexpected file (not defined in layout)")),
                matchedSet, k + 1)
         ELSE unexpectedSweep(vs, matchedSet, k + 1)

(***************************************************************************)
(* check(config, files) with a dir node as the layout root.  The children  *)
(* of the root are drawn when the loop of checkDirNode reaches them.       *)
(***************************************************************************)
MaxEntries == 3      \* the entry list given to check has at most MaxEntries entries
MaxChildren == 2     \* the layout root has at most MaxChildren children

Entry(relPath, isDir) == FileEntry(relPath, isDir, FALSE, Len(relPath))

EntryUniverse ==
    <<Entry(<<nSrc>>, TRUE), Entry(<<nSrc, nIdx>>, FALSE), Entry(<<nSrc, nFoo>>, FALSE),
      Entry(<<nSrc, nLib>>, TRUE), Entry(<<nPkg>>, FALSE), Entry(<<nUnx>>, FALSE),
      Entry(<<nVts>>, FALSE)>>

RECURSIVE Pick(_, _, _)
Pick(seq, S, k) ==
    IF k > Len(seq) THEN << >>
    ELSE (IF k \in S THEN <<seq[k]>> ELSE << >>) \o Pick(seq, S, k + 1)

EntryLists ==
    {Pick(EntryUniverse, S, 1) :
        S \in {T \in SUBSET (1..Len(EntryUniverse)) : Cardinality(T) <= MaxEntries}}

Configs ==
    {[mode |-> "strict", ignorePaths |-> << >>, strict |-> FALSE],
     [mode |-> "warn",   ignorePaths |-> << >>, strict |-> FALSE],
     [mode |-> "strict", ignorePaths |-> << >>, strict |-> TRUE],
     [mode |-> "strict", ignorePaths |-> << <<nUnx>> >>, strict |-> FALSE]}

FileReq == [BaseNode EXCEPT !.required = TRUE]
DirIdx == [BaseNode EXCEPT !.type = "dir", !.children = <<Child(nIdx, BaseNode)>>]
RecKebab == [BaseNode EXCEPT !.type = "recursive", !.case = "kebab"]
ParamPascal == [BaseNode EXCEPT !.type = "param", !.case = "pascal", !.pattern = pTs]
Many(min, max) == [BaseNode EXCEPT !.type = "many", !.pattern = pTs, !.min = min, !.max = max]
Either(optional, variants) ==
    [BaseNode EXCEPT !.type = "either", !.optional = optional, !.variants = variants]

ManyMins == {Undef, 2}
ManyMaxs == {Undef, 0, 2}

mKey == <<"$", "m">>
pKey == <<"$", "p">>
eKey == <<"$", "e">>

ChildPool ==
    {Child(nSrc, DirIdx),
     Child(nSrc, Either(FALSE, <<FileReq, DirIdx>>)),
     Child(nSrc, Either(FALSE, <<RecKebab, FileReq>>)),
     Child(nSrc, Either(TRUE, <<RecKebab, FileReq>>)),
     Child(nSrc, [BaseNode EXCEPT !.type = "dir", !.strict = TRUE,
                    !.children = <<Child(mKey, Many(2, 2))>>]),
     Child(nPkg, BaseNode),
     Child(nPkg, [FileReq EXCEPT !.pattern = pTsJs, !.case = "pascal"]),
     Child(pKey, ParamPascal),
     Child(eKey, Either(FALSE, <<ParamPascal, Many(2, Undef)>>)),
     Child(eKey, Either(FALSE, <<[ParamPascal EXCEPT !.pattern = <<"*", ".", "m", "d">>],
                                 Either(TRUE, <<FileReq>>)>>))}
    \cup {Child(mKey, Many(min, max)) : min \in ManyMins, max \in ManyMaxs}

(***************************************************************************)
(* The rule checks.  A pattern is the sequence of its segments; a rule     *)
(* message that quotes names has them in the detail of the violation.      *)
(***************************************************************************)
Detailed(viol, detail) == [viol EXCEPT !.detail = detail]

\* context.ts lines 29-36: the severity is "warning" whatever the mode
addWarning_BySeverityOfMode(st, viol) == [st EXCEPT !.v = Append(@, viol)]

addWarning(st, viol) ==
    [st EXCEPT !.v = Append(@, [viol EXCEPT !.severity = "warning"])]

\* matcher.ts lines 303-309
matches(path, pattern) == getCachedMatcher(pattern, path)

RECURSIVE FoldSeq(_, _, _, _)
FoldSeq(Op(_, _), acc, seq, k) ==
    IF k > Len(seq) THEN acc ELSE FoldSeq(Op, Op(acc, seq[k]), seq, k + 1)

\* rules/forbid-paths.ts
checkForbidPaths(st) ==
    LET patterns == rules.forbidPaths
        step(s, file) ==
            IF matchesAny(file.relativePath, patterns)
            THEN addViolation(s, Violation(file.relativePath, "forbidPaths",
                                           "path matches forbidden pattern"))
            ELSE s
    IN  IF Len(patterns) = 0 THEN st ELSE FoldSeq(step, st, files, 1)

\* names.includes(basename)
includesName(names, basename) == \E k \in 1..Len(names) : names[k] = basename

\* rules/forbid-names.ts
checkForbidNames(st) ==
    LET names == rules.forbidNames
        step(s, file) ==
            LET basename == getBasename(file.relativePath)
            IN  IF includesName(names, basename)
                THEN addViolation(s, Detailed(Violation(file.relativePath, "forbidNames",
                                                        "filename is forbidden"),
                                              <<<<basename>>>>))
                ELSE s
    IN  IF Len(names) = 0 THEN st ELSE FoldSeq(step, st, files, 1)

\* rules/dependencies.ts: the violation is reported at the source pattern
checkDependencies(st) ==
    LET step(s, dep) ==
            IF \E k \in 1..Len(files) : matches(files[k].relativePath, dep.source)
            THEN LET perT(s2, t) ==
                         IF \E k \in 1..Len(files) : matches(files[k].relativePath, t)
                         THEN s2
                         ELSE addViolation(s2,
                                Detailed(Violation(dep.source, "dependencies",
                                           "files matching source require target to exist"),
                                         <<dep.source, t>>))
                 IN  FoldSeq(perT, s, dep.targets, 1)
            ELSE s
    IN  FoldSeq(step, st, rules.dependencies, 1)

\* part.includes("*")
HasStar(part) == \E k \in 1..Len(part) : part[k] = "*"

\* the RegExp of mirror.ts lines 31-33: * is any run of characters, every
\* other character stands for itself
RECURSIVE StarMatch(_, _)
StarMatch(str, pat) ==
    IF pat = << >> THEN str = << >>
    ELSE IF Head(pat) = "*"
         THEN \E k \in 0..Len(str) : StarMatch(SubSeq(str, k + 1, Len(str)), Tail(pat))
    ELSE str # << >> /\ Head(str) = Head(pat) /\ StarMatch(Tail(str), Tail(pat))

\* mirror.ts lines 7-46; the result has ok = FALSE for null, and else the
\* captured path parts by the index of the pattern part (none: << >>)
RECURSIVE extractLoop(_, _, _, _, _)
extractLoop(pathParts, patternParts, i, pathIdx, segments) ==
    IF i > Len(patternParts) THEN [ok |-> TRUE, segments |-> segments]
    ELSE LET patternPart == patternParts[i] IN
         IF patternPart = GlobStar
         THEN LET remaining == Len(patternParts) - i
                  consumed  == Len(pathParts) - remaining - (pathIdx - 1)
              IN  IF consumed < 1 THEN [ok |-> FALSE, segments |-> segments]
                  ELSE extractLoop(pathParts, patternParts, i + 1, pathIdx + consumed,
                         [segments EXCEPT ![i] =
                            SubSeq(pathParts, pathIdx, pathIdx + consumed - 1)])
         ELSE IF HasStar(patternPart)
         THEN IF pathIdx > Len(pathParts) \/ ~StarMatch(pathParts[pathIdx], patternPart)
              THEN [ok |-> FALSE, segments |-> segments]
              ELSE extractLoop(pathParts, patternParts, i + 1, pathIdx + 1,
                               [segments EXCEPT ![i] = <<pathParts[pathIdx]>>])
         ELSE IF pathIdx > Len(pathParts) \/ pathParts[pathIdx] # patternPart
              THEN [ok |-> FALSE, segments |-> segments]
              ELSE extractLoop(pathParts, patternParts, i + 1, pathIdx + 1, segments)

extractPathSegments(path, pattern) ==
    IF Len(path) < Len(pattern)
    THEN [ok |-> FALSE, segments |-> << >>]
    ELSE extractLoop(path, pattern, 1, 1, [i \in 1..Len(pattern) |-> << >>])

\* no file pattern
NoFilePattern == [from |-> << >>, to |-> << >>]

\* str.replace("*", ""): the first * is removed
DropStar(str) ==
    IF ~HasStar(str) THEN str
    ELSE LET i == CHOOSE x \in 1..Len(str) :
                    str[x] = "*" /\ \A y \in 1..(x - 1) : str[y] # "*"
         IN  SubSeq(str, 1, i - 1) \o SubSeq(str, i + 1, Len(str))

\* str.replace(from, to): the first occurrence of from is replaced
ReplaceFirst(str, from, to) ==
    LET at == {i \in 1..(Len(str) - Len(from) + 1) :
                 SubSeq(str, i, i + Len(from) - 1) = from}
    IN  IF at = {} THEN str
        ELSE LET i == CHOOSE x \in at : \A y \in at : x <= y
             IN  SubSeq(str, 1, i - 1) \o to \o SubSeq(str, i + Len(from), Len(str))

Contains(str, word) ==
    \E i \in 1..(Len(str) - Len(word) + 1) : SubSeq(str, i, i + Len(word) - 1) = word

\* lines 90-96: the extension is replaced in the first path part that has it
renamePart(segment, filePattern) ==
    LET fromExt == DropStar(filePattern.from)
        toExt   == DropStar(filePattern.to)
        having  == {i \in 1..Len(segment) : Contains(segment[i], fromExt)}
    IN  IF filePattern.from # << >> /\ filePattern.to # << >> /\ having # {}
        THEN LET i == CHOOSE x \in having : \A y \in having : x <= y
             IN  [segment EXCEPT ![i] = ReplaceFirst(@, fromExt, toExt)]
        ELSE segment

\* mirror.ts lines 73-107
RECURSIVE targetLoop(_, _, _, _, _, _, _)
targetLoop(targetParts, k, wildcardIndices, wildcardUsed, segments, filePattern, resultParts) ==
    IF k > Len(targetParts) THEN resultParts
    ELSE LET targetPart == targetParts[k]
             segment == IF wildcardUsed < Len(wildcardIndices)
                        THEN segments[wildcardIndices[wildcardUsed + 1]]
                        ELSE << >>
         IN  IF HasStar(targetPart) /\ segment # << >>
             THEN targetLoop(targetParts, k + 1, wildcardIndices, wildcardUsed + 1,
                             segments, filePattern,
                             resultParts \o (IF targetPart = <<"*">> \/ targetPart = GlobStar
                                             THEN segment
                                             ELSE renamePart(segment, filePattern)))
             ELSE targetLoop(targetParts, k + 1, wildcardIndices, wildcardUsed,
                             segments, filePattern, Append(resultParts, targetPart))

\* mirror.ts lines 48-110; << >> stands for null and for the empty path
buildTargetPath(sourcePath, sourcePattern, targetPattern, filePattern) ==
    LET sourceSegments == extractPathSegments(sourcePath, sourcePattern)
        wildcardIndices ==
            SelectSeq([i \in 1..Len(sourcePattern) |-> i],
                      LAMBDA i : HasStar(sourcePattern[i]))
    IN  IF ~sourceSegments.ok THEN << >>
        ELSE targetLoop(targetPattern, 1, wildcardIndices, 0, sourceSegments.segments,
                        filePattern, << >>)

\* mirror.ts lines 112-139
checkMirror(st) ==
    LET step(s, mirror) ==
            LET perSource(s2, source) ==
                    LET targetPath == buildTargetPath(source.relativePath, mirror.source,
                                                      mirror.target, mirror.pattern)
                    IN  IF ~source.isDirectory
                           /\ matches(source.relativePath, mirror.source)
                           /\ targetPath # << >> /\ targetPath \notin fileSet
                        THEN addViolation(s2,
                               Detailed(Violation(source.relativePath, "mirror",
                                                  "missing mirrored file"),
                                        <<targetPath>>))
                        ELSE s2
            IN  FoldSeq(perSource, s, files, 1)
    IN  FoldSeq(step, st, rules.mirror, 1)

\* the members of a Set of paths in the order of their insertion
RECURSIVE Distinct(_, _, _)
Distinct(seq, k, acc) ==
    IF k > Len(seq) THEN acc
    ELSE Distinct(seq, k + 1,
                  IF \E j \in 1..Len(acc) : acc[j] = seq[k] THEN acc ELSE Append(acc, seq[k]))

dirList ==
    LET dirs == SelectSeq(files, LAMBDA f : f.isDirectory)
    IN  Distinct([k \in 1..Len(dirs) |-> dirs[k].relativePath], 1, << >>)

\* rules/when.ts: in every directory of the entry list, a trigger file
\* requires its companions
checkWhen(st) ==
    LET perDir(s, dir) ==
            LET perTrigger(s2, w) ==
                    LET triggerPath == dir \o w.trigger
                        perRequired(s3, required) ==
                            IF (dir \o required) \notin fileSet
                            THEN addViolation(s3,
                                   Detailed(Violation(triggerPath, "when",
                                                      "trigger requires companion to exist"),
                                            <<w.trigger, required>>))
                            ELSE s3
                    IN  IF triggerPath \in fileSet
                        THEN FoldSeq(perRequired, s2, w.requires, 1)
                        ELSE s2
            IN  FoldSeq(perTrigger, s, rules.when, 1)
    IN  FoldSeq(perDir, st, dirList, 1)

(***************************************************************************)
(* rules/match.ts.  The directory tree is the sequence of the paths of its *)
(* nodes below the root, in the order of their creation.                   *)
(***************************************************************************)
\* getOrCreateDir, lines 62-91: the missing nodes on the way down are created
RECURSIVE getOrCreateDir(_, _, _)
getOrCreateDir(tree, path, n) ==
    IF n > Len(path) THEN tree
    ELSE LET currentPath == SubSeq(path, 1, n)
         IN  getOrCreateDir(IF \E j \in 1..Len(tree) : tree[j] = currentPath
                            THEN tree ELSE Append(tree, currentPath),
                            path, n + 1)

\* lines 48-111
buildDirectoryTree(entries) ==
    LET step(tree, file) ==
            IF file.isDirectory
            THEN getOrCreateDir(tree, file.relativePath, 1)
            ELSE getOrCreateDir(tree, SubSeq(file.relativePath, 1,
                                             Len(file.relativePath) - 1), 1)
    IN  FoldSeq(step, << >>, entries, 1)

\* node.children.values(): the nodes directly below, oldest first
NodeChildren(tree, path) ==
    SelectSeq(tree, LAMBDA d : Len(d) = Len(path) + 1 /\ SubSeq(d, 1, Len(path)) = path)

\* node.files: the names of the files pushed to the node, lines 101-105
NodeFiles(path) ==
    LET own == SelectSeq(files, LAMBDA f :
                   /\ ~f.isDirectory
                   /\ SubSeq(f.relativePath, 1, Len(f.relativePath) - 1) = path)
    IN  [k \in 1..Len(own) |-> getBasename(own[k].relativePath)]

\* lines 117-145: breadth first from the root, which is never a result
RECURSIVE collectLoop(_, _, _, _, _)
collectLoop(tree, queue, pattern, exclude, found) ==
    IF queue = << >> THEN found
    ELSE LET node == Head(queue)
             hit  == /\ node # << >>
                     /\ matches(node, pattern)
                     /\ ~matchesAny(node, exclude)
         IN  collectLoop(tree, Tail(queue) \o NodeChildren(tree, node), pattern, exclude,
                         IF hit THEN Append(found, node) ELSE found)

collectMatchingDirs(tree, pattern, exclude) ==
    collectLoop(tree, << << >> >>, pattern, exclude, << >>)

\* lines 150-156: the names of the files, then of the subdirectories
getDirectChildren(tree, path) ==
    LET kids == NodeChildren(tree, path)
    IN  NodeFiles(path) \o [k \in 1..Len(kids) |-> getBasename(kids[k])]

\* lines 161-163
joinPath(dirPath, entry) == Append(dirPath, entry)

\* the key of createViolationTracker, lines 171-172; the rule is always match
TrackerKey(path, message, detail) == <<path, message, detail>>

isDuplicate_Never(seen, key) == FALSE

\* lines 170-176
isDuplicate(seen, key) == key \in seen

\* if (!tracker.isDuplicate(...)) yield* addViolation(...)
report(ms, path, message, detail) ==
    LET key == TrackerKey(path, message, detail)
    IN  IF isDuplicate(ms.seen, key)
        THEN ms
        ELSE [st |-> addViolation(ms.st, Detailed(Violation(path, "match", message), detail)),
              seen |-> ms.seen \cup {key}]

\* getCaseName(style) as the detail of a message
CaseDetail(style) == << << <<style>> >> >>

\* lines 183-297: one rule at one matched directory
checkMatchRule(ms, rule, tree, node) ==
    LET allEntries == getDirectChildren(tree, node)
        m1 == IF rule.case # NoCase /\ ~validateCase(getBasename(node), rule.case)
              THEN report(ms, node, "directory name must be", CaseDetail(rule.case))
              ELSE ms
        childStep(m, entry) ==
            IF ~validateCase(entry, rule.childCase)
            THEN report(m, joinPath(node, entry), "name must be", CaseDetail(rule.childCase))
            ELSE m
        m2 == IF rule.childCase # NoCase THEN FoldSeq(childStep, m1, allEntries, 1) ELSE m1
        requireStep(m, required) ==
            IF \E k \in 1..Len(allEntries) : matches(<<allEntries[k]>>, required)
            THEN m
            ELSE report(m, node, "missing required entry", <<required>>)
        m3 == FoldSeq(requireStep, m2, rule.require, 1)
        forbidStep(m, entry) ==
            IF matchesAny(<<entry>>, rule.forbid)
            THEN report(m, joinPath(node, entry), "forbidden entry in matched directory",
                        << >>)
            ELSE m
        m4 == FoldSeq(forbidStep, m3, allEntries, 1)
        allowedPatterns == rule.require \o rule.allow
        rejectStep(m, entry) ==
            report(m, joinPath(node, entry),
                   "entry not allowed (strict mode with no allowed patterns)", << >>)
        strictStep(m, entry) ==
            IF ~matchesAny(<<entry>>, allowedPatterns)
            THEN report(m, joinPath(node, entry), "entry not allowed by strict match rule",
                        << >>)
            ELSE m
    IN  IF ~rule.strict THEN m4
        ELSE IF Len(allowedPatterns) = 0 THEN FoldSeq(rejectStep, m4, allEntries, 1)
        ELSE FoldSeq(strictStep, m4, allEntries, 1)

\* lines 314-318 and 338-342: the two diagnostics, reported at "."
EmptyPattern == Violation(<<<<".">>>>, "match", "match rule has empty pattern - skipping")

NoMatch(pattern) ==
    Detailed(Violation(<<<<".">>>>, "match", "match pattern did not match any directories"),
             <<pattern>>)

\* lines 306-351
checkMatch(st) ==
    LET matchRules == rules.match
        warnEmpty(s, rule) ==
            IF rule.pattern = << >> THEN addWarning(s, EmptyPattern) ELSE s
        s1 == FoldSeq(warnEmpty, st, matchRules, 1)
        validRules == SelectSeq(matchRules, LAMBDA r : r.pattern # << >>)
        root == buildDirectoryTree(files)
        perRule(ms, rule) ==
            LET matchedDirs == collectMatchingDirs(root, rule.pattern, rule.exclude)
                perDir(m, dir) == checkMatchRule(m, rule, root, dir)
            IN  IF Len(matchedDirs) = 0
                THEN [ms EXCEPT !.st = addWarning(@, NoMatch(rule.pattern))]
                ELSE FoldSeq(perDir, ms, matchedDirs, 1)
    IN  IF Len(matchRules) = 0 THEN st
        ELSE IF Len(validRules) = 0 THEN s1
        ELSE FoldSeq(perRule, [st |-> s1, seen |-> {}], validRules, 1).st

\* no rule of any kind
NoRules ==
    [forbidPaths |-> << >>, forbidNames |-> << >>, dependencies |-> << >>,
     mirror |-> << >>, when |-> << >>, match |-> << >>]

filterIgnored_KeepsDirectories(entries) ==
    SelectSeq(entries, LAMBDA e :
        e.isDirectory \/ ~matchesAny(e.relativePath, config.ignorePaths))

\* check lines 21-22: entries that match an ignorePaths pattern are dropped
filterIgnored(entries) ==
    SelectSeq(entries, LAMBDA e : ~matchesAny(e.relativePath, config.ignorePaths))

\* the patterns of a layout node and of the nodes below it, brace groups expanded
RECURSIVE LayoutKeys(_)
LayoutKeys(node) ==
    (IF node.pattern # << >> /\ validateBracePattern(node.pattern)
     THEN {normalizePattern(<<p>>) : p \in expandBraces(node.pattern)}
     ELSE {})
    \cup UNION {LayoutKeys(node.children[k].node) : k \in 1..Len(node.children)}
    \cup UNION {LayoutKeys(node.child[k]) : k \in 1..Len(node.child)}
    \cup UNION {LayoutKeys(node.variants[k]) : k \in 1..Len(node.variants)}

\* check is called with a config that has a layout and no other rule
CheckInit ==
    /\ config \in Configs
    /\ rules = NoRules
    /\ input \in EntryLists
    /\ files = << >>
    /\ children = << >>
    /\ violations = << >>
    /\ matched = {}
    /\ cpc = "filter"
    /\ call = [tool |-> "none"]
    /\ ret = [tool |-> "none"]
    /\ mcache = [maxSize |-> 0, keys |-> << >>]
    /\ lock = [exists |-> FALSE, owner |-> 0, old |-> FALSE]
    /\ ops = << >>
    /\ cache = {}
    /\ run = "first"
    /\ first = << >>
    /\ plan = << >>
    \* no scan is running during a check
    /\ fs = FsPair
    /\ faults = NoFaults(FsPair)
    /\ opts = [maxDepth |-> 1, maxFiles |-> 3, followSymlinks |-> FALSE,
               concurrency |-> 1, useGitignore |-> TRUE, ignore |-> {},
               scope |-> << >>]
    /\ frames = << >>
    /\ fileCount = 0
    /\ visitedPaths = {}
    /\ status = "idle"
    /\ err = NoErr
    /\ result = << >>

\* check lines 21-24: the ignorePaths filter and createContext.  The matchers
\* that a step asks for are looked up in the cache as the step found it, and
\* are in the cache after the step.
StartCheck ==
    /\ cpc = "filter"
    /\ files' = filterIgnored(input)
    /\ violations' = << >>
    /\ matched' = {}
    /\ cache' = IF Len(input) > 0 THEN cache \cup CacheKeys(config.ignorePaths) ELSE cache
    /\ cpc' = "forbidPaths"
    /\ UNCHANGED <<config, children, runVars, scanVars>>

\* one of the checks of check lines 27-36, which run one after the other
RuleCheck(pc, next, st, keys) ==
    /\ cpc = pc
    /\ violations' = st.v
    /\ matched' = st.m
    /\ cache' = cache \cup keys
    /\ cpc' = next
    /\ UNCHANGED <<config, files, children, runVars, scanVars>>

ForbidPaths ==
    RuleCheck("forbidPaths", "forbidNames", checkForbidPaths(State(violations, matched)),
              IF Len(files) > 0 THEN CacheKeys(rules.forbidPaths) ELSE {})

ForbidNames ==
    RuleCheck("forbidNames", "dependencies", checkForbidNames(State(violations, matched)), {})

Dependencies ==
    RuleCheck("dependencies", "mirror", checkDependencies(State(violations, matched)),
              UNION {(IF Len(files) > 0 THEN CacheKeys(<<rules.dependencies[k].source>>)
                      ELSE {})
                     \cup (IF \E j \in 1..Len(files) :
                                matches(files[j].relativePath, rules.dependencies[k].source)
                           THEN CacheKeys(rules.dependencies[k].targets)
                           ELSE {}) : k \in 1..Len(rules.dependencies)})

Mirror ==
    RuleCheck("mirror", "when", checkMirror(State(violations, matched)),
              IF fileSet # {}
              THEN CacheKeys([k \in 1..Len(rules.mirror) |-> rules.mirror[k].source])
              ELSE {})

When ==
    RuleCheck("when", "match", checkWhen(State(violations, matched)), {})

\* the patterns of the match rules that checkMatch asks a matcher for
MatchKeys ==
    LET root == buildDirectoryTree(files)
        keysOf(rule) ==
            LET matchedDirs == collectMatchingDirs(root, rule.pattern, rule.exclude)
                reached == \E k \in 1..Len(matchedDirs) :
                              Len(getDirectChildren(root, matchedDirs[k])) > 0
            IN  (IF Len(root) > 0 THEN CacheKeys(<<rule.pattern>>) ELSE {})
                \cup (IF \E k \in 1..Len(root) : matches(root[k], rule.pattern)
                      THEN CacheKeys(rule.exclude) ELSE {})
                \cup (IF reached THEN CacheKeys(rule.require \o rule.forbid) ELSE {})
                \cup (IF reached /\ rule.strict THEN CacheKeys(rule.allow) ELSE {})
    IN  UNION {keysOf(rules.match[k]) : k \in 1..Len(rules.match)}

\* check runs the match rules with the other rule checks, before the layout
Match ==
    RuleCheck("match", "layout", checkMatch(State(violations, matched)), MatchKeys)

ChildPathOf(c) == IF IsMetaKey(c.key) THEN << >> ELSE <<c.key>>

\* checkDirNode lines 105-112 for the layout root: the next child is checked
CheckChild(c) ==
    /\ cpc = "layout"
    /\ Len(children) < MaxChildren
    /\ \A k \in 1..Len(children) : children[k].key # c.key
    /\ run # "first" =>
         Len(children) < Len(plan) /\ c = plan[Len(children) + 1]
    /\ LET r == checkLayoutNode(State(violations, matched), c.node, ChildPathOf(c))
       IN  /\ violations' = r.v
           /\ matched' = r.m
           /\ cpc' = IF r.died THEN "died" ELSE cpc
    /\ children' = Append(children, c)
    /\ cache' = cache \cup LayoutKeys(c.node)
    /\ UNCHANGED <<config, files, runVars, scanVars>>

\* checkDirNode lines 114-136 for the layout root, checkLayout lines 341-353,
\* check lines 41-54
FinishCheck ==
    /\ cpc = "layout"
    /\ run # "first" => children = plan
    /\ LET s0 == State(violations, matched)
           s1 == IF config.strict
                 THEN dirStrict(s0, AllowedNames(children), << >>, 1)
                 ELSE s0
       IN  /\ matched' = s1.m
           /\ violations' = IF config.mode = "strict"
                            THEN unexpectedSweep(s1.v, s1.m, 1)
                            ELSE s1.v
    /\ cpc' = "done"
    /\ UNCHANGED <<config, files, children, cache, runVars, scanVars>>

CheckNext ==
    \/ StartCheck
    \/ ForbidPaths
    \/ ForbidNames
    \/ Dependencies
    \/ Mirror
    \/ When
    \/ Match
    \/ \E c \in ChildPool : CheckChild(c)
    \/ FinishCheck

CheckSpec == CheckInit /\ [][CheckNext]_vars

(***************************************************************************)
(* check with rules of every kind, run a second time on the same entries   *)
(* or on the entries without those that ignorePaths hides                  *)
(***************************************************************************)
pJs == <<"*", ".", "j", "s">>                                       \* *.js
pNested == <<"*", ".", "{", "t", "s", ",", "{", "j", "s", "}", "}">>  \* *.{ts,{js}}
Star == <<"*">>

MatchRule(pattern) ==
    [pattern |-> pattern, exclude |-> << >>, require |-> << >>, allow |-> << >>,
     forbid |-> << >>, strict |-> FALSE, case |-> NoCase, childCase |-> NoCase]

\* forbidPaths src/**; forbidNames i.ts; src/*.ts depends on v.ts and *.js;
\* src/*.ts is mirrored at *.ts with i* -> u*; in a directory, i.ts requires F.ts
RulesFive ==
    [NoRules EXCEPT
       !.forbidPaths = << <<nSrc, GlobStar>> >>,
       !.forbidNames = <<nIdx>>,
       !.dependencies = <<[source |-> <<nSrc, pTs>>, targets |-> << <<nVts>>, <<pJs>> >>]>>,
       !.mirror = <<[source |-> <<nSrc, pTs>>, target |-> <<pTs>>,
                     pattern |-> [from |-> <<"i", "*">>, to |-> <<"u", "*">>]]>>,
       !.when = <<[trigger |-> <<nIdx>>, requires |-> << <<nFoo>> >>]>>]

\* two rules that overlap at src: both forbid F.ts there
RulesOverlap ==
    [NoRules EXCEPT
       !.match = <<[MatchRule(<<Star>>) EXCEPT !.forbid = << <<nFoo>> >>],
                   [MatchRule(<<nSrc>>) EXCEPT !.forbid = << <<nFoo>> >>,
                                               !.childCase = "kebab",
                                               !.require = << <<nIdx>> >>]>>]

\* two rules for a directory lb, which is not at the root
RulesUnmatched ==
    [NoRules EXCEPT
       !.match = <<[MatchRule(<<nLib>>) EXCEPT !.require = << <<nIdx>> >>, !.strict = TRUE],
                   [MatchRule(<<nLib>>) EXCEPT !.forbid = << <<pTs>> >>, !.case = "pascal"]>>]

\* a rule without a pattern, a strict rule for src, a rule for all directories but src
RulesStrict ==
    [NoRules EXCEPT
       !.match = <<MatchRule(<< >>),
                   [MatchRule(<<nSrc>>) EXCEPT !.strict = TRUE, !.allow = << <<nIdx>> >>,
                                               !.case = "pascal"],
                   [MatchRule(<<Star>>) EXCEPT !.exclude = << <<nSrc>> >>, !.strict = TRUE]>>,
       !.forbidPaths = << <<pJs>> >>,
       !.mirror = <<[source |-> <<GlobStar, nIdx>>, target |-> <<GlobStar, nFoo>>,
                     pattern |-> NoFilePattern]>>]

RuleSets == {RulesFive, RulesOverlap, RulesUnmatched, RulesStrict}

RuleConfigs ==
    {[mode |-> "strict", ignorePaths |-> << >>, strict |-> FALSE],
     [mode |-> "warn",   ignorePaths |-> << >>, strict |-> FALSE],
     [mode |-> "strict", ignorePaths |-> << <<nUnx>>, <<nSrc, nFoo>> >>, strict |-> FALSE],
     [mode |-> "warn",   ignorePaths |-> << <<nSrc>> >>, strict |-> TRUE]}

xKey == <<"$", "x">>

RuleChildPool ==
    {Child(nSrc, DirIdx),
     Child(pKey, [ParamPascal EXCEPT !.pattern = pTsJs]),
     Child(xKey, [Many(Undef, Undef) EXCEPT !.pattern = pNested])}

RulesInit ==
    /\ config \in RuleConfigs
    /\ rules \in RuleSets
    /\ input \in EntryLists
    /\ files = << >>
    /\ children = << >>
    /\ violations = << >>
    /\ matched = {}
    /\ cpc = "filter"
    /\ call = [tool |-> "none"]
    /\ ret = [tool |-> "none"]
    /\ mcache = [maxSize |-> 0, keys |-> << >>]
    /\ lock = [exists |-> FALSE, owner |-> 0, old |-> FALSE]
    /\ ops = << >>
    /\ cache = {}
    /\ run = "first"
    /\ first = << >>
    /\ plan = << >>
    \* no scan is running during a check
    /\ fs = FsPair
    /\ faults = NoFaults(FsPair)
    /\ opts = [maxDepth |-> 1, maxFiles |-> 3, followSymlinks |-> FALSE,
               concurrency |-> 1, useGitignore |-> TRUE, ignore |-> {},
               scope |-> << >>]
    /\ frames = << >>
    /\ fileCount = 0
    /\ visitedPaths = {}
    /\ status = "idle"
    /\ err = NoErr
    /\ result = << >>

\* the entry list with every entry removed that an ignorePaths pattern matches
WithoutIgnored(entries) ==
    SelectSeq(entries, LAMBDA e :
        \A k \in 1..Len(config.ignorePaths) :
            ~PathMatch(e.relativePath, normalizePattern(config.ignorePaths[k])))

\* check returned; it is called again with the same config, and how says
\* which entries it is given.  The matcher cache is the module's and stays.
Rerun(how) ==
    /\ cpc = "done"
    /\ run = "first"
    /\ how = "filtered" => WithoutIgnored(input) # input
    /\ run' = how
    /\ first' = violations
    /\ plan' = children
    /\ input' = IF how = "filtered" THEN WithoutIgnored(input) ELSE input
    /\ files' = << >>
    /\ children' = << >>
    /\ violations' = << >>
    /\ matched' = {}
    /\ cpc' = "filter"
    /\ UNCHANGED <<config, rules, cache, scanVars>>

RulesNext ==
    \/ StartCheck
    \/ ForbidPaths
    \/ ForbidNames
    \/ Dependencies
    \/ Mirror
    \/ When
    \/ Match
    \/ \E c \in RuleChildPool : CheckChild(c)
    \/ FinishCheck
    \/ \E how \in {"same", "filtered"} : Rerun(how)

RulesSpec == RulesInit /\ [][RulesNext]_vars

(***************************************************************************)
(* check(config, files) on deeper trees, with strict directories, param    *)
(* nodes and recursive nodes below the layout root                         *)
(***************************************************************************)
MaxLayoutEntries == 4    \* the entry list has at most MaxLayoutEntries entries

\* src, src/i.ts, src/u.ts, src/lb, src/lb/i.ts, src/lb/u.ts, src/lb/lb,
\* src/lb/lb/u.ts, p.js
LayoutEntryUniverse ==
    <<Entry(<<nSrc>>, TRUE), Entry(<<nSrc, nIdx>>, FALSE), Entry(<<nSrc, nUnx>>, FALSE),
      Entry(<<nSrc, nLib>>, TRUE), Entry(<<nSrc, nLib, nIdx>>, FALSE),
      Entry(<<nSrc, nLib, nUnx>>, FALSE), Entry(<<nSrc, nLib, nLib>>, TRUE),
      Entry(<<nSrc, nLib, nLib, nUnx>>, FALSE), Entry(<<nPkg>>, FALSE)>>

LayoutEntryLists ==
    {Pick(LayoutEntryUniverse, S, 1) :
        S \in {T \in SUBSET (1..Len(LayoutEntryUniverse)) : Cardinality(T) <= MaxLayoutEntries}}

LayoutConfigs ==
    {[mode |-> m, ignorePaths |-> << >>, strict |-> s] : m \in {"strict", "warn"}, s \in BOOLEAN}

StrictDir(kids) == [BaseNode EXCEPT !.type = "dir", !.strict = TRUE, !.children = kids]
ParamAny == [BaseNode EXCEPT !.type = "param", !.child = <<DirIdx>>]
Recursive(maxDepth) == [RecKebab EXCEPT !.maxDepth = maxDepth]

\* src as a strict directory with i.ts and a param child, as a strict
\* directory with the strict directory lb in it, as a directory with a
\* PascalCase *.ts param child, as a recursive node; a param child of the root
LayoutChildPool ==
    {Child(nSrc, StrictDir(<<Child(nIdx, BaseNode), Child(pKey, ParamAny)>>)),
     Child(nSrc, StrictDir(<<Child(nLib, StrictDir(<<Child(nIdx, BaseNode)>>))>>)),
     Child(nSrc, [BaseNode EXCEPT !.type = "dir", !.children = <<Child(pKey, ParamPascal)>>]),
     Child(pKey, ParamPascal),
     Child(pKey, [ParamPascal EXCEPT !.pattern = << >>])}
    \cup {Child(nSrc, Recursive(d)) : d \in {Undef, 0, 1}}

LayoutInit ==
    /\ config \in LayoutConfigs
    /\ rules = NoRules
    /\ input \in LayoutEntryLists
    /\ files = << >>
    /\ children = << >>
    /\ violations = << >>
    /\ matched = {}
    /\ cpc = "filter"
    /\ call = [tool |-> "none"]
    /\ ret = [tool |-> "none"]
    /\ mcache = [maxSize |-> 0, keys |-> << >>]
    /\ lock = [exists |-> FALSE, owner |-> 0, old |-> FALSE]
    /\ ops = << >>
    /\ cache = {}
    /\ run = "first"
    /\ first = << >>
    /\ plan = << >>
    \* no scan is running during a check
    /\ fs = FsPair
    /\ faults = NoFaults(FsPair)
    /\ opts = [maxDepth |-> 1, maxFiles |-> 3, followSymlinks |-> FALSE,
               concurrency |-> 1, useGitignore |-> TRUE, ignore |-> {},
               scope |-> << >>]
    /\ frames = << >>
    /\ fileCount = 0
    /\ visitedPaths = {}
    /\ status = "idle"
    /\ err = NoErr
    /\ result = << >>

LayoutNext ==
    \/ StartCheck
    \/ ForbidPaths
    \/ ForbidNames
    \/ Dependencies
    \/ Mirror
    \/ When
    \/ Match
    \/ \E c \in LayoutChildPool : CheckChild(c)
    \/ FinishCheck

LayoutSpec == LayoutInit /\ [][LayoutNext]_vars

(***************************************************************************)
(* cache.ts: the fingerprint of an entry list.  A string is the sequence   *)
(* of its characters.                                                      *)
(***************************************************************************)
MaxHashEntries == 3     \* computeFileHash is given at most MaxHashEntries entries

engineVars == <<fs, faults, opts, frames, fileCount, visitedPaths, status, err, result,
                config, children, files, violations, matched, cpc, cache,
                rules, input, run, first, plan>>

\* the UTF-16 code unit of a character, which is what Array.prototype.sort
\* compares strings by
CodeOf(c) ==
    CASE c = "\n" -> 10 [] c = "." -> 46 [] c = "/" -> 47
      [] c = "0" -> 48 [] c = "1" -> 49 [] c = "2" -> 50 [] c = "3" -> 51 [] c = "4" -> 52
      [] c = "5" -> 53 [] c = "6" -> 54 [] c = "7" -> 55 [] c = "8" -> 56 [] c = "9" -> 57
      [] c = ":" -> 58 [] c = "D" -> 68 [] c = "F" -> 70 [] c = "a" -> 97 [] c = "b" -> 98

\* a < b for two strings
RECURSIVE StrLess(_, _)
StrLess(a, b) ==
    IF b = << >> THEN FALSE
    ELSE IF a = << >> THEN TRUE
    ELSE IF Head(a) = Head(b) THEN StrLess(Tail(a), Tail(b))
    ELSE CodeOf(Head(a)) < CodeOf(Head(b))

DigitOf(n) == <<"0", "1", "2", "3", "4", "5", "6", "7", "8", "9">>[n + 1]

\* String(n) for a natural number
RECURSIVE numberToString(_)
numberToString(n) == IF n < 10 THEN <<DigitOf(n)>> ELSE numberToString(n \div 10) \o <<DigitOf(n % 10)>>

\* cache.ts lines 42-47: relativePath:kind:size:mtime, a missing size or
\* mtime counts as 0
HashLine(f) ==
    f.relativePath \o <<":">> \o (IF f.isDirectory THEN <<"D">> ELSE <<"F">>)
    \o <<":">> \o numberToString(IF f.size = -1 THEN 0 ELSE f.size)
    \o <<":">> \o numberToString(IF f.mtimeMs = -1 THEN 0 ELSE f.mtimeMs)

RECURSIVE InsertSorted(_, _)
InsertSorted(sorted, x) ==
    IF sorted = << >> THEN <<x>>
    ELSE IF StrLess(x, Head(sorted)) THEN <<x>> \o sorted
    ELSE <<Head(sorted)>> \o InsertSorted(Tail(sorted), x)

sort_KeepsOrder(lines) == lines

\* line 48, .sort(): ascending by code units
RECURSIVE sort(_)
sort(lines) ==
    IF lines = << >> THEN << >>
    ELSE InsertSorted(sort(SubSeq(lines, 1, Len(lines) - 1)), lines[Len(lines)])

\* line 49, .join("\n")
RECURSIVE join(_)
join(lines) ==
    IF lines = << >> THEN << >>
    ELSE IF Len(lines) = 1 THEN lines[1]
    ELSE lines[1] \o <<"\n">> \o join(Tail(lines))

\* lines 28-30: the first 16 hex digits of the SHA-256 of the string.  The
\* digest is taken to be free of collisions and stands for its string.
hashString(str) == [sha256 |-> str]

\* lines 40-51
computeFileHash(entries) ==
    hashString(join(sort([k \in 1..Len(entries) |-> HashLine(entries[k])])))

HashEntry(relPath, isDir, size, mtimeMs) ==
    [relativePath |-> relPath, isDirectory |-> isDir, size |-> size, mtimeMs |-> mtimeMs]

\* a, a/b, a.b and b; a with a size of 10 and of 9, and without one
HashUniverse ==
    {HashEntry(<<"a">>, TRUE, -1, -1),
     HashEntry(<<"a", "/", "b">>, FALSE, 10, 3),
     HashEntry(<<"a", ".", "b">>, FALSE, 9, 3),
     HashEntry(<<"b">>, FALSE, 10, -1),
     HashEntry(<<"b">>, FALSE, 9, 12)}

Orders(n) == {p \in [1..n -> 1..n] : \A i, j \in 1..n : i # j => p[i] # p[j]}

\* computeFileHash is called with an entry list, and with the same entries
\* in another order
HashInit ==
    /\ \E n \in 0..MaxHashEntries :
         \E list \in [1..n -> HashUniverse], p \in Orders(n) :
            call = [tool |-> "computeFileHash", files |-> list,
                    permuted |-> [i \in 1..n |-> list[p[i]]]]
    /\ ret = [tool |-> "none"]
    /\ mcache = [maxSize |-> 0, keys |-> << >>]
    /\ lock = [exists |-> FALSE, owner |-> 0, old |-> FALSE]
    /\ ops = << >>
    \* neither a scan nor a check is running
    /\ fs = FsPair
    /\ faults = NoFaults(FsPair)
    /\ opts = [maxDepth |-> 1, maxFiles |-> 3, followSymlinks |-> FALSE,
               concurrency |-> 1, useGitignore |-> TRUE, ignore |-> {},
               scope |-> << >>]
    /\ frames = << >>
    /\ fileCount = 0
    /\ visitedPaths = {}
    /\ status = "idle"
    /\ err = NoErr
    /\ result = << >>
    /\ config = [mode |-> "warn", ignorePaths |-> << >>, strict |-> FALSE]
    /\ rules = NoRules
    /\ input = << >>
    /\ children = << >>
    /\ files = << >>
    /\ violations = << >>
    /\ matched = {}
    /\ cpc = "idle"
    /\ cache = {}
    /\ run = "first"
    /\ first = << >>
    /\ plan = << >>

ComputeFileHash ==
    /\ call.tool = "computeFileHash"
    /\ ret.tool = "none"
    /\ ret' = [tool |-> "computeFileHash",
               hash |-> computeFileHash(call.files),
               hashPermuted |-> computeFileHash(call.permuted)]
    /\ UNCHANGED <<call, mcache, lock, ops, engineVars>>

HashNext == ComputeFileHash

HashSpec == HashInit /\ [][HashNext]_vars

(***************************************************************************)
(* matcher.ts: matches applied to one path and one pattern                 *)
(***************************************************************************)
MaxGlobDepth == 3       \* a path has at most MaxGlobDepth segments

gMod == <<"m">>               \* m
gChat == <<"c">>              \* c
gDbg == <<"d", ".", "l">>     \* d.l
gErr == <<"e", ".", "l">>     \* e.l

GlobPaths == UNION {[1..n -> {gMod, gChat, gDbg, gErr}] : n \in 1..MaxGlobDepth}

\* m/*, m/*.l, m/d.l, m/**, m/**/*.l, **, **/*.l, and without a slash
\* *.l, ?.l, [de].l, !*.l, {d,e}.l, d.l
GlobPatterns ==
    {<<gMod, <<"*">>>>, <<gMod, <<"*", ".", "l">>>>, <<gMod, gDbg>>,
     <<gMod, GlobStar>>, <<gMod, GlobStar, <<"*", ".", "l">>>>,
     <<GlobStar>>, <<GlobStar, <<"*", ".", "l">>>>,
     <<<<"*", ".", "l">>>>, <<<<"?", ".", "l">>>>, <<<<"[", "d", "e", "]", ".", "l">>>>,
     <<<<"!", "*", ".", "l">>>>, <<<<"{", "d", ",", "e", "}", ".", "l">>>>, <<gDbg>>}

\* matches is called with a relative path and a pattern, the cache is empty
GlobInit ==
    /\ \E path \in GlobPaths, pattern \in GlobPatterns :
          call = [tool |-> "matches", path |-> path, pattern |-> pattern]
    /\ ret = [tool |-> "none"]
    /\ mcache = [maxSize |-> 0, keys |-> << >>]
    /\ lock = [exists |-> FALSE, owner |-> 0, old |-> FALSE]
    /\ ops = << >>
    /\ cache = {}
    \* neither a scan nor a check is running
    /\ fs = FsPair
    /\ faults = NoFaults(FsPair)
    /\ opts = [maxDepth |-> 1, maxFiles |-> 3, followSymlinks |-> FALSE,
               concurrency |-> 1, useGitignore |-> TRUE, ignore |-> {},
               scope |-> << >>]
    /\ frames = << >>
    /\ fileCount = 0
    /\ visitedPaths = {}
    /\ status = "idle"
    /\ err = NoErr
    /\ result = << >>
    /\ config = [mode |-> "warn", ignorePaths |-> << >>, strict |-> FALSE]
    /\ rules = NoRules
    /\ input = << >>
    /\ children = << >>
    /\ files = << >>
    /\ violations = << >>
    /\ matched = {}
    /\ cpc = "idle"
    /\ run = "first"
    /\ first = << >>
    /\ plan = << >>

\* lines 303-306; the matcher that was compiled stays in the cache
Matches ==
    /\ call.tool = "matches"
    /\ ret.tool = "none"
    /\ ret' = [tool |-> "matches", result |-> matches(call.path, call.pattern)]
    /\ cache' = cache \cup CacheKeys(<<call.pattern>>)
    /\ UNCHANGED <<call, mcache, lock, ops>>
    /\ UNCHANGED <<fs, faults, opts, frames, fileCount, visitedPaths, status, err, result,
                   config, children, files, violations, matched, cpc,
                   rules, input, run, first, plan>>

GlobNext == Matches

GlobSpec == GlobInit /\ [][GlobNext]_vars

(***************************************************************************)
(* matcher.ts: a MatcherCache of its own.  Pattern i is the literal        *)
(* pattern-i, which is its own normalized text.                            *)
(***************************************************************************)
MaxCacheLimit == 11     \* the limit of the cache is between 1 and MaxCacheLimit
MaxSets == 13           \* at most MaxSets matchers are compiled

\* lines 85-97: at capacity the oldest tenth of the limit is removed;
\* Math.floor(maxSize * 0.1) is maxSize \div 10 for every limit up to 2^53
evictIfNeeded(c) ==
    IF Len(c.keys) >= c.maxSize
    THEN LET toRemove == c.maxSize \div 10
         IN  [c EXCEPT !.keys = SubSeq(c.keys, toRemove + 1, Len(c.keys))]
    ELSE c

\* lines 68-71; a Map keeps its keys in the order they were first set
set(c, pattern) ==
    LET evicted == evictIfNeeded(c)
    IN  IF \E k \in 1..Len(evicted.keys) : evicted.keys[k] = pattern
        THEN evicted
        ELSE [evicted EXCEPT !.keys = Append(evicted.keys, pattern)]

\* new MatcherCache(maxSize)
CacheInit ==
    /\ \E maxSize \in 1..MaxCacheLimit : mcache = [maxSize |-> maxSize, keys |-> << >>]
    /\ call = [tool |-> "MatcherCache", used |-> 0, sets |-> 0]
    /\ ret = [tool |-> "none"]
    /\ lock = [exists |-> FALSE, owner |-> 0, old |-> FALSE]
    /\ ops = << >>
    /\ cache = {}
    \* neither a scan nor a check is running
    /\ fs = FsPair
    /\ faults = NoFaults(FsPair)
    /\ opts = [maxDepth |-> 1, maxFiles |-> 3, followSymlinks |-> FALSE,
               concurrency |-> 1, useGitignore |-> TRUE, ignore |-> {},
               scope |-> << >>]
    /\ frames = << >>
    /\ fileCount = 0
    /\ visitedPaths = {}
    /\ status = "idle"
    /\ err = NoErr
    /\ result = << >>
    /\ config = [mode |-> "warn", ignorePaths |-> << >>, strict |-> FALSE]
    /\ rules = NoRules
    /\ input = << >>
    /\ children = << >>
    /\ files = << >>
    /\ violations = << >>
    /\ matched = {}
    /\ cpc = "idle"
    /\ run = "first"
    /\ first = << >>
    /\ plan = << >>

\* matches(path, pattern-i, {cache}), lines 237-249: a pattern that is in the
\* cache is not compiled again; i is a pattern that was asked for before or
\* the next new one
CachedMatch(i) ==
    /\ call.tool = "MatcherCache"
    /\ i \in 1..(call.used + 1)
    /\ IF \E k \in 1..Len(mcache.keys) : mcache.keys[k] = i
       THEN /\ mcache' = mcache
            /\ call' = call
       ELSE /\ call.sets < MaxSets
            /\ mcache' = set(mcache, i)
            /\ call' = [call EXCEPT !.used = IF i > @ THEN i ELSE @, !.sets = @ + 1]
    /\ UNCHANGED <<ret, lock, ops, engineVars>>

CacheNext == \E i \in 1..MaxSets : CachedMatch(i)

CacheSpec == CacheInit /\ [][CacheNext]_vars

(***************************************************************************)
(* cli.ts: the lock file of the result cache.  Every operation works on    *)
(* the same root.  The clock is not modelled by numbers: expired says that *)
(* an operation has been trying for more than LOCK_TIMEOUT_MS, old that    *)
(* the lock file was written more than LOCK_TIMEOUT_MS ago.                *)
(***************************************************************************)
MaxProcs == 2           \* the number of operations that run at the same time

Procs == 1..MaxProcs
NoLock == [exists |-> FALSE, owner |-> 0, old |-> FALSE]

\* the operations have called acquireLock; a lock file that an earlier run
\* left behind may be there, stale or not
LockInit ==
    /\ lock \in {NoLock} \cup {[exists |-> TRUE, owner |-> 0, old |-> o] : o \in BOOLEAN}
    /\ ops \in [Procs -> {[kind |-> k, pc |-> "open", expired |-> FALSE, holds |-> FALSE] :
                            k \in {"readCache", "writeCache"}}]
    /\ call = [tool |-> "none"]
    /\ ret = [tool |-> "none"]
    /\ mcache = [maxSize |-> 0, keys |-> << >>]
    /\ cache = {}
    \* neither a scan nor a check is running
    /\ fs = FsPair
    /\ faults = NoFaults(FsPair)
    /\ opts = [maxDepth |-> 1, maxFiles |-> 3, followSymlinks |-> FALSE,
               concurrency |-> 1, useGitignore |-> TRUE, ignore |-> {},
               scope |-> << >>]
    /\ frames = << >>
    /\ fileCount = 0
    /\ visitedPaths = {}
    /\ status = "idle"
    /\ err = NoErr
    /\ result = << >>
    /\ config = [mode |-> "warn", ignorePaths |-> << >>, strict |-> FALSE]
    /\ rules = NoRules
    /\ input = << >>
    /\ children = << >>
    /\ files = << >>
    /\ violations = << >>
    /\ matched = {}
    /\ cpc = "idle"
    /\ run = "first"
    /\ first = << >>
    /\ plan = << >>

LockStep(p, pc, next) ==
    /\ ops[p].pc = pc
    /\ ops' = [ops EXCEPT ![p].pc = next]

\* lines 320-328, open(lockPath, "wx"): creates the file unless it exists
Open(p) ==
    /\ ops[p].pc = "open"
    /\ IF lock.exists
       THEN /\ ops' = [ops EXCEPT ![p].pc = "failed"]
            /\ lock' = lock
       ELSE /\ ops' = [ops EXCEPT ![p].pc = "section", ![p].holds = TRUE]
            /\ lock' = [exists |-> TRUE, owner |-> p, old |-> FALSE]
    /\ UNCHANGED <<call, ret, mcache, engineVars>>

\* lines 331 and 349-350: within the timeout, wait and try again
Failed(p) ==
    /\ LockStep(p, "failed", IF ops[p].expired THEN "stat" ELSE "open")
    /\ UNCHANGED <<lock, call, ret, mcache, engineVars>>

\* lines 333-346: past the timeout; a stale lock file is to be removed, a
\* lock file that is gone is tried again, otherwise acquireLock gives up
\* and returns
Stat(p) ==
    /\ LockStep(p, "stat", IF ~lock.exists THEN "open"
                           ELSE IF lock.old THEN "unlink"
                           ELSE "section")
    /\ UNCHANGED <<lock, call, ret, mcache, engineVars>>

\* lines 337-338: unlink(lockPath) of the lock file that is there now
Unlink(p) ==
    /\ LockStep(p, "unlink", "open")
    /\ lock' = NoLock
    /\ UNCHANGED <<call, ret, mcache, engineVars>>

\* readCache lines 436-453, writeCache lines 481-509: the cache file is read
\* or written
Body(p) ==
    /\ LockStep(p, "section", "release")
    /\ UNCHANGED <<lock, call, ret, mcache, engineVars>>

\* lines 363-371: releaseLock unlinks the lock file
Release(p) ==
    /\ LockStep(p, "release", "done")
    /\ lock' = NoLock
    /\ UNCHANGED <<call, ret, mcache, engineVars>>

\* Date.now() - startTime exceeds LOCK_TIMEOUT_MS for an operation
Expire(p) ==
    /\ ops[p].pc # "done"
    /\ ~ops[p].expired
    /\ ops' = [ops EXCEPT ![p].expired = TRUE]
    /\ UNCHANGED <<lock, call, ret, mcache, engineVars>>

\* Date.now() - mtimeMs exceeds LOCK_TIMEOUT_MS for the lock file; every
\* operation started before the file was written
Age ==
    /\ lock.exists
    /\ ~lock.old
    /\ lock' = [lock EXCEPT !.old = TRUE]
    /\ ops' = [p \in Procs |-> IF lock.owner # 0 /\ ops[p].pc # "done"
                               THEN [ops[p] EXCEPT !.expired = TRUE]
                               ELSE ops[p]]
    /\ UNCHANGED <<call, ret, mcache, engineVars>>

LockNext ==
    \/ \E p \in Procs : Open(p)
    \/ \E p \in Procs : Failed(p)
    \/ \E p \in Procs : Stat(p)
    \/ \E p \in Procs : Unlink(p)
    \/ \E p \in Procs : Body(p)
    \/ \E p \in Procs : Release(p)
    \/ \E p \in Procs : Expire(p)
    \/ Age

LockSpec == LockInit /\ [][LockNext]_vars

Init ==
    ScanInit \/ ScopedInit \/ CheckInit \/ RulesInit \/ LayoutInit \/ HashInit \/ GlobInit
    \/ CacheInit \/ LockInit
Next ==
    ScanNext \/ CheckNext \/ RulesNext \/ LayoutNext \/ HashNext \/ GlobNext \/ CacheNext
    \/ LockNext
Spec == Init /\ [][Next]_vars

(***************************************************************************)
(* Properties of the scanner                                               *)
(***************************************************************************)
Range(seq) == {seq[k] : k \in 1..Len(seq)}

\* every entry some scanDirectory call has pushed to its results so far
AllRecorded == UNION {Range(frames[f].results) : f \in DOMAIN frames}

\* the symlinks that were followed: recorded as directories
LinkPaths == {e.relativePath : e \in {x \in AllRecorded : x.isSymlink /\ x.isDirectory}}

\* the frame is about to resolve a symlink whose real path is in the visited set
PendingVisited(f) ==
    /\ frames[f].pc = "resolve"
    /\ resolveSymlink(Entries(f)[frames[f].i]) \in visitedPaths

\* C5 (as stated): the scanner never recurses into a real path it has already
\* visited in this scan, i.e. no two scanDirectory calls list the same real
\* directory.
C5_NeverRescansRealPath ==
    \A f, g \in DOMAIN frames :
        f # g => RealOf(frames[f].dir) # RealOf(frames[g].dir)

\* C5 (amended): a followed symlink whose resolved real path is already in the
\* visited set (the scan root and the targets of the symlinks followed before)
\* is never recorded or recursed into; the only outcome of resolving it is a
\* scan that failed with a SymlinkLoopError naming that symlink and target.
C5_SymlinkLoopDetected ==
    /\ [][\A f \in DOMAIN frames : PendingVisited(f) => frames'[f] = frames[f]]_vars
    /\ [](err.cause.tag = "SymlinkLoopError" =>
            /\ status = "failed"
            /\ result = << >>
            /\ \E f \in DOMAIN frames :
                 /\ PendingVisited(f)
                 /\ err.cause.path = Append(frames[f].dir, Entries(f)[frames[f].i].name)
                 /\ err.cause.target = resolveSymlink(Entries(f)[frames[f].i]))

C5_Witness ==
    /\ status = "failed"
    /\ err.cause.tag = "SymlinkLoopError"
    /\ fs = FsCycle
    /\ err.cause.path = <<"a", "s", "s">>

\* C6: a subdirectory found while the directory being listed is at maxDepth
\* fails the scan with a MaxDepthExceededError, wrapped in a ScanError, that
\* carries the offending path and the configured bound; no directory below the
\* bound is ever listed, and with maxDepth 2 the five-level tree never scans
\* successfully.
C6_MaxDepthExceeded ==
    /\ \A f \in DOMAIN frames : frames[f].depth <= opts.maxDepth
    /\ \A e \in AllRecorded :
         (e.isDirectory /\ e.depth > opts.maxDepth) =>
            /\ status = "failed"
            /\ err = ScanErrorOf([tag |-> "MaxDepthExceededError", path |-> e.relativePath,
                                  depth |-> e.depth, maxDepth |-> opts.maxDepth])
    /\ (fs = FsDeep /\ opts.maxDepth = 2 /\ opts.ignore = {}) => status # "ok"

C6_Witness ==
    /\ fs = FsDeep
    /\ opts.maxDepth = 2
    /\ status = "failed"
    /\ err.tag = "ScanError"
    /\ err.cause.tag = "MaxDepthExceededError"
    /\ err.cause.path = <<"p", "q", "u">>
    /\ err.cause.maxDepth = 2

\* C7: a scan that succeeds never returns more than maxFiles entries.
C7_SuccessWithinMaxFiles ==
    status = "ok" => Len(result) <= opts.maxFiles

\* C8: the check and the increment of the running file counter are atomic:
\* the counter never rises above maxFiles.
C8_CounterNeverAboveMax ==
    fileCount <= opts.maxFiles

\* C9: the visited set is updated with an exclusive insert-and-check: of the
\* symlinks that resolve to one real path at most one is recorded and recursed
\* into, the set holds exactly the root and the recorded targets, and a
\* symlink that lost the race is not recorded: the scan failed with a
\* SymlinkLoopError for it.
C9_ExclusiveInsert ==
    /\ \A p, q \in LinkPaths : RealOf(p) = RealOf(q) => p = q
    /\ visitedPaths = {RootReal} \cup {RealOf(p) : p \in LinkPaths}
    /\ err.cause.tag = "SymlinkLoopError" =>
          /\ err.cause.path \notin LinkPaths
          /\ err.cause.target \in visitedPaths

\* two sibling branches are both still running; one has recorded its symlink
\* to T and the other one's symlink to T failed the scan
C9_Witness ==
    /\ fs = FsShared
    /\ status = "failed"
    /\ err.cause.tag = "SymlinkLoopError"
    /\ err.cause.target = "T"
    /\ \E f, g \in DOMAIN frames :
         /\ f # g
         /\ frames[f].parent = frames[g].parent
         /\ frames[f].pc # "done" /\ frames[g].pc # "done"
         /\ \E e \in Range(frames[f].results) : e.isSymlink /\ RealOf(e.relativePath) = "T"
         /\ frames[g].pc = "resolve"
         /\ err.cause.path = Append(frames[g].dir, Entries(g)[frames[g].i].name)

\* C10: a walk cut short by the timeout fails with a ScanError ("Scan timed
\* out") and returns no entries; a scan that succeeds has finished every
\* scanDirectory call and returns every entry that was recorded.
C10_TimeoutDiscardsPartial ==
    /\ status = "ok" =>
          /\ \A f \in DOMAIN frames :
                frames[f].pc = "done" /\ frames[f].started = Len(frames[f].subdirs)
          /\ AllRecorded = Range(result)
          /\ err = NoErr
    /\ status = "failed" => (result = << >> /\ err.tag = "ScanError")
    /\ err.cause = TimedOut => status = "failed"

C10_Witness ==
    /\ status = "failed"
    /\ err = ScanErrorOf(TimedOut)
    /\ AllRecorded # {}
    /\ result = << >>
    /\ \E f \in DOMAIN frames : frames[f].pc # "done"

Prefixes(path) == {SubSeq(path, 1, k) : k \in 0..Len(path)}

StartsWith(seq, pre) == Len(pre) <= Len(seq) /\ SubSeq(seq, 1, Len(pre)) = pre

\* the call has got past line 192: its directory was not skipped as ignored
Listed(f) ==
    /\ frames[f].pc # "readdir"
    /\ ~(frames[f].dir # << >> /\ ignoreMatcher(frames[f].patterns, frames[f].dir))

\* C11: a directory-read error other than ENOENT, EACCES and EPERM fails the
\* whole scan: a scan that succeeds has listed no directory whose readdir
\* failed with another error.
C11_OtherReadErrorsFail ==
    status = "ok" =>
       \A f \in DOMAIN frames :
          Listed(f) => FaultOf(RealOf(frames[f].dir)) \in {"none", "ENOENT", "EACCES", "EPERM"}

\* the ignore pattern set in effect for a directory: the patterns of the scan
\* options and, with useGitignore, those of the .gitignore files of the
\* directory and of the directories above it
PatternsInEffect(dir) ==
    opts.ignore \cup
    (IF opts.useGitignore
     THEN UNION {readGitignoreFile(RealOf(q), q) : q \in Prefixes(dir)}
     ELSE {})

\* the entry at path matches the pattern set in effect for its directory
IgnoredEntry(path) ==
    path # << >> /\ createMatcher(PatternsInEffect(SubSeq(path, 1, Len(path) - 1)), path)

\* the path or a directory above it is ignored
InIgnoredSubtree(path) == \E q \in Prefixes(path) : IgnoredEntry(q)

\* the entries of its listing that the call has counted so far
Counted(f) ==
    LET fr   == frames[f]
        ents == Entries(f)
    IN  IF ~Listed(f) THEN 0
        ELSE Cardinality({k \in 1..Len(ents) :
                            /\ ~IgnoredEntry(Append(fr.dir, ents[k].name))
                            /\ (k < fr.i \/ (k = fr.i /\ fr.pc = "resolve"))})

RECURSIVE SumCounted(_)
SumCounted(n) == IF n = 0 THEN 0 ELSE Counted(n) + SumCounted(n - 1)

\* C12: no entry that matches the ignore pattern set in effect for its
\* directory, and no entry below such a directory, is recorded or returned;
\* no directory in an ignored subtree is ever listed; and the file counter
\* counts exactly the entries that are not ignored, each once.
C12_IgnoredNeverScanned ==
    /\ \A e \in AllRecorded \cup Range(result) : ~InIgnoredSubtree(e.relativePath)
    /\ \A f \in DOMAIN frames :
          /\ ~InIgnoredSubtree(SubSeq(frames[f].dir, 1, Len(frames[f].dir) - 1))
          /\ Listed(f) => ~InIgnoredSubtree(frames[f].dir)
    /\ status # "failed" => fileCount = SumCounted(Len(frames))

\* x/.gitignore holds "d/": the scan returns y/f and x/f but nothing at or
\* below x/d, and has counted the six entries left
C12_Witness ==
    /\ fs = FsGit(<<GitPattern(FALSE, <<"d">>, TRUE)>>)
    /\ opts.useGitignore /\ opts.ignore = {}
    /\ status = "ok"
    /\ \E e \in Range(result) : e.relativePath = <<"y", "f">>
    /\ \E e \in Range(result) : e.relativePath = <<"x", "f">>
    /\ \A e \in Range(result) : ~StartsWith(e.relativePath, <<"x", "d">>)
    /\ IgnoredEntry(<<"x", "d">>)
    /\ fileCount = 6

\* C13: every pattern a scanDirectory call applies beyond those of the scan
\* options comes from the .gitignore of its own directory or of a directory
\* above it and starts with the relative path of that directory; so the
\* entries beside and above a directory with a .gitignore are returned
\* whatever that file holds.
C13_GitignoreScoped ==
    /\ \A f \in DOMAIN frames :
          \A p \in frames[f].patterns \ opts.ignore :
             \E q \in Prefixes(frames[f].dir) :
                /\ opts.useGitignore
                /\ p \in readGitignoreFile(RealOf(q), q)
                /\ StartsWith(p, q)
    /\ \A lines \in GitignoreChoices :
          (fs = FsGit(lines) /\ status = "ok" /\ opts.ignore = {}) =>
             \A path \in {<<"f">>, <<"x">>, <<"y">>, <<"y", "f">>} :
                \E e \in Range(result) : e.relativePath = path

\* x/.gitignore holds "f": x/f and x/d/f are skipped, f and y/f are returned
C13_Witness ==
    /\ fs = FsGit(<<GitPattern(FALSE, <<"f">>, FALSE)>>)
    /\ opts.useGitignore /\ opts.ignore = {}
    /\ status = "ok"
    /\ \A e \in Range(result) : e.relativePath \notin {<<"x", "f">>, <<"x", "d", "f">>}
    /\ \E e \in Range(result) : e.relativePath = <<"x", "d", "k">>
    /\ \E e \in Range(result) : e.relativePath = <<"y", "f">>
    /\ \E e \in Range(result) : e.relativePath = <<"f">>

\* C14: with symlink-following disabled, every symlink that is not ignored is
\* returned as a directory-shaped entry marked as a symlink.
C14_UnfollowedSymlinkRecorded ==
    (status = "ok" /\ ~opts.followSymlinks) =>
       \A f \in DOMAIN frames :
          Listed(f) =>
             \A k \in 1..Len(Entries(f)) :
                LET ent     == Entries(f)[k]
                    relPath == Append(frames[f].dir, ent.name)
                IN  (ent.kind = "link" /\ ~ignoreMatcher(frames[f].patterns, relPath)) =>
                       \E e \in Range(result) :
                          e.relativePath = relPath /\ e.isDirectory /\ e.isSymlink
(***************************************************************************)
(* Properties of the layout nodes.  A step that checks a child of the      *)
(* layout root shows what the node of that child did: the violations it    *)
(* added and the paths it marked.                                          *)
(***************************************************************************)
ChildStep == cpc = "layout" /\ Len(children') = Len(children) + 1
StepChild == children'[Len(children')]
StepViolations == SubSeq(violations', Len(violations) + 1, Len(violations'))

NotAllowedAt(vs, path) ==
    \E k \in 1..Len(vs) : vs[k].path = path /\ vs[k].message = "is not allowed"

\* C26: the sweep of a strict directory does not flag an entry that lies
\* beneath a direct child of the directory which the children of the node
\* have put into the matched set
C26_MatchedChildShields ==
    [][(/\ ChildStep
        /\ StepChild.node.type = "dir"
        /\ StepChild.node.strict
        /\ \A k \in 1..Len(StepChild.node.children) :
              StepChild.node.children[k].node.type # "dir")
       => \A k \in 1..Len(StepViolations) :
             LET v == StepViolations[k]
                 below == Len(ChildPathOf(StepChild)) + 1
                 direct == SubSeq(v.path, 1, below)
             IN  (v.message = "is not allowed" /\ Len(v.path) > below)
                 => ~(direct \in matched' /\ ~NotAllowedAt(StepViolations, direct))]_vars

UnexpectedReports(path) ==
    {k \in 1..Len(violations) :
        /\ violations[k].path = path
        /\ violations[k].message
             \in {"is not allowed", "unexpected file (not defined in layout)"}}

\* C27: a path that a strict directory flagged is in the matched set, and
\* when check is done no path has more than one violation from the sweeps
\* of the strict directories and the sweep of strict mode together
C27_NoDoubleUnexpected ==
    cpc \in {"layout", "done"} =>
       /\ \A k \in 1..Len(violations) :
             violations[k].message = "is not allowed" => violations[k].path \in matched
       /\ \A k \in 1..Len(files) : Cardinality(UnexpectedReports(files[k].relativePath)) <= 1

\* a strict check is done in which a strict directory flagged src/lb/u.ts
\* and the sweep of strict mode reported another entry
C27_Witness ==
    /\ cpc = "done"
    /\ config.mode = "strict"
    /\ NotAllowedAt(violations, <<nSrc, nLib, nUnx>>)
    /\ Cardinality(UnexpectedReports(<<nSrc, nLib, nUnx>>)) = 1
    /\ \E k \in 1..Len(violations) :
          /\ violations[k].path = <<nPkg>>
          /\ violations[k].message = "unexpected file (not defined in layout)"

\* C28: a param node adds at most one naming violation for a path
C28_OneNamingPerChild ==
    [][(ChildStep /\ StepChild.node.type = "param")
       => \A i, j \in 1..Len(StepViolations) :
             (/\ StepViolations[i].rule = "naming"
              /\ StepViolations[j].rule = "naming"
              /\ StepViolations[i].path = StepViolations[j].path) => i = j]_vars

\* every directory between the two paths is an entry that is a directory
Chain(from, to) ==
    \A n \in (Len(from) + 1)..(Len(to) - 1) : SubSeq(to, 1, n) \in dirSet

\* C29: a recursive node with maxDepth d at a path marks and reports only
\* paths that are at most d + 1 segments below it, and it marks every entry
\* below it that is within that depth and that a chain of directory entries
\* leads to; without maxDepth it marks every such entry
C29_RecursionBounded ==
    [][(ChildStep /\ StepChild.node.type = "recursive" /\ ~IsMetaKey(StepChild.key))
       => LET at == <<StepChild.key>>
              d == StepChild.node.maxDepth
              within(p) == d = Undef \/ Len(p) <= Len(at) + d + 1
          IN  /\ \A p \in matched' \ matched : within(p)
              /\ \A k \in 1..Len(StepViolations) : within(StepViolations[k].path)
              /\ \A k \in 1..Len(files) :
                    LET p == files[k].relativePath
                    IN  (IsUnder(p, at) /\ Chain(at, p) /\ within(p)) => p \in matched']_vars

\* a recursive node with maxDepth 0 has been checked at src: src/lb is
\* marked, and src/lb/lb, which is an entry in the directory src/lb, is not
C29_Witness ==
    /\ cpc = "layout"
    /\ Len(children) = 1
    /\ children[1] = Child(nSrc, Recursive(0))
    /\ <<nSrc, nLib>> \in dirSet
    /\ <<nSrc, nLib, nLib>> \in dirSet
    /\ <<nSrc, nLib>> \in matched
    /\ <<nSrc, nLib, nLib>> \notin matched

(***************************************************************************)
(* Properties of a scan with a scope                                       *)
(***************************************************************************)
\* C25: the depth of every entry of a scan result is the number of segments
\* of its relative path
C25_DepthIsSegmentCount ==
    status = "ok" =>
       \A k \in 1..Len(result) : result[k].depth = Len(result[k].relativePath)

(***************************************************************************)
(* Properties of matches                                                   *)
(***************************************************************************)
NoGlobStar(pat) == \A k \in 1..Len(pat) : ~startsWith(pat[k], GlobStar)

EachSegmentMatches(path, pat) ==
    Len(path) = Len(pat) /\ \A k \in 1..Len(pat) : SegmentMatch(path[k], pat[k])

C22_WitnessStar ==
    /\ ret.tool = "matches"
    /\ call.pattern = <<gMod, <<"*">>>>
    /\ call.path = <<gMod, gChat, gDbg>>
    /\ ~ret.result

HasMetacharacter(str) == \E k \in 1..Len(str) : str[k] \in {"*", "?", "[", "]", "{", "}"}

\* C23: a pattern without a slash that has a glob metacharacter matches a
\* path exactly when it matches the last segment of the path; one without
\* metacharacters matches only the path that is equal to it
C23_BasenamePatternAnyDepth ==
    (ret.tool = "matches" /\ Len(call.pattern) = 1) =>
       IF HasMetacharacter(Head(call.pattern))
       THEN ret.result <=> matches(<<call.path[Len(call.path)]>>, call.pattern)
       ELSE ret.result <=> call.path = call.pattern

(***************************************************************************)
(* Properties of the lock file                                             *)
(***************************************************************************)
InSection(p) == ops[p].pc \in {"section", "release"}

\* C30: at most one operation is between acquireLock and releaseLock, and
\* the operation that is there created the lock file, which is still there
C30_MutualExclusion ==
    /\ \A p, q \in DOMAIN ops : (InSection(p) /\ InSection(q)) => p = q
    /\ \A p \in DOMAIN ops :
          InSection(p) => (ops[p].holds /\ lock.exists /\ lock.owner = p)

(***************************************************************************)
(* Properties of the matcher cache                                         *)
(***************************************************************************)
\* C24: a cache with a limit of at least 1 never holds more entries than
\* its limit
C24_CacheBounded ==
    mcache.maxSize >= 1 => Len(mcache.keys) <= mcache.maxSize

(***************************************************************************)
(* Properties of the fingerprint                                           *)
(***************************************************************************)
\* C21: two entry lists with the same entries in a different order have the
\* same fingerprint
C21_HashOrderIndependent ==
    ret.tool = "computeFileHash" => ret.hash = ret.hashPermuted

\* the fingerprint of three entries was computed, the second list is the
\* first in reverse, and the lines of the first are not in ascending order
C21_Witness ==
    /\ ret.tool = "computeFileHash"
    /\ Len(call.files) = MaxHashEntries
    /\ call.permuted = [i \in 1..Len(call.files) |-> call.files[Len(call.files) + 1 - i]]
    /\ call.files[1].relativePath = <<"b">>
    /\ call.files[2].relativePath = <<"a", "/", "b">>
    /\ call.files[3].relativePath = <<"a", ".", "b">>
    /\ ret.hash = ret.hashPermuted

(***************************************************************************)
(* Properties of check with rules                                          *)
(***************************************************************************)
Count(seq, P(_)) == Cardinality({k \in 1..Len(seq) : P(seq[k])})

IsPrefix(a, b) == Len(a) <= Len(b) /\ SubSeq(b, 1, Len(a)) = a

FiveChecks == {"forbidPaths", "forbidNames", "dependencies", "mirror", "when"}

\* a pattern with a brace group inside a brace group
NestedBraces(pat) ==
    \E i, j \in 1..Len(pat) :
        /\ i < j
        /\ pat[i] = "{" /\ pat[j] = "{"
        /\ \A k \in i..j : pat[k] # "}"
        /\ \E k \in (j + 1)..Len(pat) : pat[k] = "}"

RECURSIVE PatternsOf(_)
PatternsOf(node) ==
    {node.pattern}
    \cup UNION {PatternsOf(node.children[k].node) : k \in 1..Len(node.children)}
    \cup UNION {PatternsOf(node.child[k]) : k \in 1..Len(node.child)}
    \cup UNION {PatternsOf(node.variants[k]) : k \in 1..Len(node.variants)}

C17_FiveChecksLeaveMatched ==
    [][/\ cpc \in FiveChecks => matched' = matched /\ IsPrefix(violations, violations')
       /\ (cpc # "layout" /\ cpc' = "layout") => matched' = {}
       /\ ~(matched' \subseteq matched) => cpc = "layout"]_vars

\* each of the five checks has reported a violation, and the layout check
\* starts with an empty matched set
C17_Witness ==
    /\ cpc = "layout"
    /\ children = << >>
    /\ matched = {}
    /\ \A r \in FiveChecks : \E k \in 1..Len(violations) : violations[k].rule = r

\* the directories of the entry list: the directory entries and the
\* directories that hold an entry
DirectoriesOf(entries) ==
    UNION {{SubSeq(entries[k].relativePath, 1, n) :
              n \in 1..(Len(entries[k].relativePath) - (IF entries[k].isDirectory THEN 0 ELSE 1))}
           : k \in 1..Len(entries)}

\* the pattern of a match rule matches no directory of the entry list
MatchesNoDirectory(pattern) ==
    \A d \in DirectoriesOf(files) : pattern = << >> \/ ~PathMatch(d, normalizePattern(pattern))

IsDiagnosticOf(viol, pattern) ==
    /\ viol.rule = "match"
    /\ viol.path = <<<<".">>>>
    /\ IF pattern = << >>
       THEN viol.message = "match rule has empty pattern - skipping"
       ELSE /\ viol.message = "match pattern did not match any directories"
            /\ viol.detail = <<pattern>>

AfterMatch == cpc \in {"layout", "done", "died"}

SameReport(a, b) == a.path = b.path /\ a.rule = b.rule /\ a.message = b.message
                    /\ a.detail = b.detail

IsDiagnostic(viol) ==
    /\ viol.rule = "match"
    /\ viol.message \in {"match rule has empty pattern - skipping",
                         "match pattern did not match any directories"}

C18_IgnoredInvisible ==
    (run = "filtered" /\ cpc = "done") => violations = first

\* the second run was given the entries without the directory src, which
\* ignorePaths hides; both runs report a forbidden name and mark paths
C18_Witness ==
    /\ run = "filtered"
    /\ cpc = "done"
    /\ config.ignorePaths = << <<nSrc>> >>
    /\ violations = first
    /\ \E k \in 1..Len(first) : first[k].rule = "forbidNames"
    /\ matched # {}

(***************************************************************************)
(* Properties of the layout validator                                      *)
(***************************************************************************)
\* the step checks one more child of the layout root
ChecksChild == cpc = "layout" /\ Len(children') = Len(children) + 1

Before == State(violations, matched)

\* the first variant that matches when it is tried on the state st, or 0
FirstMatching(st, node, path) ==
    LET ks == {k \in 1..Len(node.variants) : checkLayoutNode(st, node.variants[k], path).ok}
    IN  IF ks = {} THEN 0 ELSE CHOOSE k \in ks : \A j \in ks : k <= j

NoVariantMatched(path) ==
    Violation(path, "layout", "none of the expected variants matched")

\* C1: when a variant of an either node matches, the violations and the
\* matched set after the node are those that this variant alone produces from
\* the state before the node: nothing of an earlier, failed variant is left.
C1_EitherRollback ==
    [][ChecksChild =>
          LET c == children'[Len(children')]
              k == FirstMatching(Before, c.node, ChildPathOf(c))
          IN  (c.node.type = "either" /\ k # 0) =>
                 LET r == checkLayoutNode(Before, c.node.variants[k], ChildPathOf(c))
                 IN  violations' = r.v /\ matched' = r.m]_vars

\* the example of the claim: the first variant (a required file src) fails
\* with a violation, the second (a directory src with i.ts) matches
C1_Witness ==
    /\ children = <<Child(nSrc, Either(FALSE, <<FileReq, DirIdx>>))>>
    /\ files = <<Entry(<<nSrc>>, TRUE), Entry(<<nSrc, nIdx>>, FALSE)>>
    /\ checkLayoutNode(State(<< >>, {}), FileReq, <<nSrc>>).v # << >>
    /\ violations = << >>
    /\ matched = {<<nSrc>>, <<nSrc, nIdx>>}

UnexpectedFile(relPath) ==
    Violation(relPath, "layout", "unexpected file (not defined in layout)")

Occurrences(seq, x) == Cardinality({k \in 1..Len(seq) : seq[k] = x})

\* C2: in strict mode, when check is done, every entry outside the matched
\* set has exactly one "unexpected file" violation of rule layout and no entry
\* inside the matched set has one; the layout {p.js: {}} on [p.js, u.ts]
\* yields the single violation for u.ts.
C2_StrictSweep ==
    (cpc = "done" /\ config.mode = "strict") =>
       /\ \A k \in 1..Len(files) :
             Occurrences(violations, UnexpectedFile(files[k].relativePath))
                = IF files[k].relativePath \in matched THEN 0 ELSE 1
       /\ ( /\ children = <<Child(nPkg, BaseNode)>>
            /\ ~config.strict
            /\ files = <<Entry(<<nPkg>>, FALSE), Entry(<<nUnx>>, FALSE)>> )
          => violations = <<UnexpectedFile(<<nUnx>>)>>

C2_Witness ==
    /\ cpc = "done"
    /\ config.mode = "strict"
    /\ children = <<Child(nPkg, BaseNode)>>
    /\ files = <<Entry(<<nPkg>>, FALSE), Entry(<<nUnx>>, FALSE)>>
    /\ violations = <<UnexpectedFile(<<nUnx>>)>>
    /\ matched = {<<nPkg>>}

\* C3: when no variant of an either node matches, the node leaves the matched
\* set as it was and adds nothing to the violations when it is optional, and
\* exactly the "no variant matched" violation when it is not.
C3_EitherNoMatch ==
    [][ChecksChild =>
          LET c == children'[Len(children')]
          IN  (c.node.type = "either" /\ FirstMatching(Before, c.node, ChildPathOf(c)) = 0) =>
                 /\ matched' = matched
                 /\ violations' = IF c.node.optional THEN violations
                                  ELSE Append(violations, NoVariantMatched(ChildPathOf(c)))]_vars

\* after a file has been matched, an either node whose variants both fail
\* (the recursive one after it has marked src, the required file with a
\* violation) adds its single violation
C3_Witness ==
    /\ Len(children) = 2
    /\ children[1] = Child(nPkg, BaseNode)
    /\ children[2] = Child(nSrc, Either(FALSE, <<RecKebab, FileReq>>))
    /\ files = <<Entry(<<nSrc>>, TRUE), Entry(<<nPkg>>, FALSE)>>
    /\ checkLayoutNode(State(<< >>, {<<nPkg>>}), RecKebab, <<nSrc>>).m # {<<nPkg>>}
    /\ checkLayoutNode(State(<< >>, {<<nPkg>>}), FileReq, <<nSrc>>).v # << >>
    /\ matched = {<<nPkg>>}
    /\ violations = <<NoVariantMatched(<<nSrc>>)>>

\* the names of the direct children of parentPath that a many node counts:
\* not matched before the node is reached, and matching its pattern
Qualifying(st, node, parentPath) ==
    {name \in {FirstPart(files[k].relativePath, parentPath) :
                 k \in {x \in 1..Len(files) : IsUnder(files[x].relativePath, parentPath)}} :
        /\ Append(parentPath, name) \notin st.m
        /\ (node.pattern = << >> \/ matchesWithBraces(name, node.pattern))}

Added == SubSeq(violations', Len(violations) + 1, Len(violations'))

BoundViolations(seq, path, message) ==
    {k \in 1..Len(seq) : seq[k].path = path /\ seq[k].rule = "layout"
                         /\ seq[k].message = message}

\* C4 (as stated): a many node emits at most one of the two bound violations.
C4_AtMostOneBoundViolation ==
    [][ChecksChild =>
          LET c == children'[Len(children')]
          IN  c.node.type = "many" =>
                 Cardinality(BoundViolations(Added, ChildPathOf(c), "below minimum count"))
                 + Cardinality(BoundViolations(Added, ChildPathOf(c), "exceeded maximum count"))
                 <= 1]_vars

\* C4 (amended): the count a many node compares with min and max is the
\* number of distinct qualifying direct children; it emits one "below
\* minimum" violation exactly when min is set and the count is below it, one
\* "exceeded maximum" violation exactly when max is set and the count is above
\* it, each carrying that count; so at most one of the two when min <= max.
C4_ManyBounds ==
    [][ChecksChild =>
          LET c     == children'[Len(children')]
              path  == ChildPathOf(c)
              count == Cardinality(Qualifying(Before, c.node, path))
              below == BoundViolations(Added, path, "below minimum count")
              above == BoundViolations(Added, path, "exceeded maximum count")
          IN  c.node.type = "many" =>
                 /\ Cardinality(below) =
                       IF c.node.min # Undef /\ count < c.node.min THEN 1 ELSE 0
                 /\ Cardinality(above) =
                       IF c.node.max # Undef /\ count > c.node.max THEN 1 ELSE 0
                 /\ \A k \in below \cup above : Added[k].count = count
                 /\ (c.node.min = Undef \/ c.node.max = Undef \/ c.node.min <= c.node.max)
                       => Cardinality(below) + Cardinality(above) <= 1]_vars

\* min 2, max 2 and one qualifying child (u.ts; src does not match *.ts)
C4_Witness ==
    /\ children = <<Child(mKey, Many(2, 2))>>
    /\ files = <<Entry(<<nSrc>>, TRUE), Entry(<<nUnx>>, FALSE)>>
    /\ violations = <<[Violation(<< >>, "layout", "below minimum count") EXCEPT !.count = 1]>>
    /\ matched = {<<nUnx>>}
====
